---- MODULE Spec2Model ----
(***************************************************************************)
(* A model of the sludge interpreter: the scope frames of                  *)
(* interpreter/variable_scope.rs, the values of interpreter/value.rs and   *)
(* the tree-walking evaluator of interpreter/mod.rs.                       *)
(*                                                                         *)
(* Rc<VariableScope> handles are indices into the sequence `frames`; a     *)
(* frame is never freed in the model (a frame that nothing references is   *)
(* unobservable in the program).  Parent 0 stands for `parent: None`.      *)
(***************************************************************************)
EXTENDS Integers, Sequences, FiniteSets, TLC

VARIABLES
    frames,     \* the VariableScope frames: [parent, variables]
    lists,      \* the list cells (Rc<RefCell<Vec<Value>>>)
    out,        \* the lines written to the stdout sink
    calls,      \* history: the closure calls made so far
    build,      \* TRUE when the build checks integer overflow
    last,       \* SpecScope: the last call made on a frame, with what it returned
    prog,       \* Spec: the program being run
    pc,         \* Spec: index of the next top-level statement
    result      \* Spec: what run_program has returned so far

vars == <<frames, lists, out, calls, build, last, prog, pc, result>>

(***************************************************************************)
(* Bounds of the model.                                                    *)
(***************************************************************************)
MaxFrames == 3

Names == {"x", "y"}

(***************************************************************************)
(* Values (interpreter/value.rs).                                          *)
(***************************************************************************)
Null == [t |-> "Null"]

Int32(n) == [t |-> "Int32", v |-> n]

Boolean(b) == [t |-> "Boolean", v |-> b]

String(s) == [t |-> "String", v |-> s]

Return(value) == [t |-> "Return", v |-> value]

Tuple(values) == [t |-> "Tuple", v |-> values]

\* Value::List: `ref` is the index in `lists` of the shared Rc<RefCell<Vec>>.
List(ref) == [t |-> "List", v |-> ref]

\* Value::Set and Value::Dictionary: `ref` is the index in `lists` of the
\* shared Rc<RefCell<HashSet<Hashable>>> / Rc<RefCell<HashMap<Hashable, Value>>>.
ValueSet(ref) == [t |-> "Set", v |-> ref]

Dictionary(ref) == [t |-> "Dictionary", v |-> ref]

\* Value::Function: `scope` is the index in `frames` of the captured frame.
Function(arguments, statement, scope) ==
    [t |-> "Function", arguments |-> arguments, statement |-> statement,
     scope |-> scope]

\* Value::BuiltinFn: NamedBuiltin / NamedBuiltinWithInterpreter; `f` names the
\* native function, `interpreter` is the frame of the carried interpreter
\* (0 for a NamedBuiltin, which carries none).
BuiltinFn(name, this, f, interpreter) ==
    [t |-> "BuiltinFn", name |-> name, this |-> this, f |-> f,
     interpreter |-> interpreter]

\* Option<T>: None is the empty sequence, Some(v) the one-element sequence.
None == <<>>

Some(v) == <<v>>

(***************************************************************************)
(* VariableScope (interpreter/variable_scope.rs).                          *)
(***************************************************************************)
\* An insert that keeps the value of a key that is present.
Insert_keep(variables, name, value) ==
    [k \in (DOMAIN variables) \cup {name} |->
        IF k \in DOMAIN variables THEN variables[k] ELSE value]

\* HashMap::insert: the map afterwards.
Insert(variables, name, value) ==
    [k \in (DOMAIN variables) \cup {name} |->
        IF k = name THEN value ELSE variables[k]]

\* HashMap::insert: the value it returns (the previous value of the key).
Previous(variables, name) ==
    IF name \in DOMAIN variables THEN Some(variables[name]) ELSE None

\* VariableScope::new: the root frame, with the three constructors bound.
RootVariables ==
    [k \in {"list", "dict", "set"} |->
        BuiltinFn(k, Null,
                  CASE k = "list" -> "list::new"
                    [] k = "dict" -> "dict::dict"
                    [] k = "set"  -> "set::set",
                  0)]

new == <<[parent |-> 0, variables |-> RootVariables]>>

\* A child that copies the bindings of its parent as they are at the time,
\* and keeps no reference to the parent.
branch_snapshot(fr, parent) ==
    Append(fr, [parent |-> 0, variables |-> fr[parent].variables])

\* VariableScope::branch: an empty frame that references `parent`.
branch(fr, parent) == Append(fr, [parent |-> parent, variables |-> <<>>])

\* A get that lets the outermost binding win.
RECURSIVE get_outermost(_, _, _)
get_outermost(fr, f, name) ==
    LET up == IF fr[f].parent # 0 THEN get_outermost(fr, fr[f].parent, name)
              ELSE None
    IN IF up # None THEN up
       ELSE IF name \in DOMAIN fr[f].variables
            THEN Some(fr[f].variables[name])
            ELSE None

\* VariableScope::get: this frame first, then the parents.
RECURSIVE get(_, _, _)
get(fr, f, name) ==
    IF name \in DOMAIN fr[f].variables
    THEN Some(fr[f].variables[name])
    ELSE IF fr[f].parent # 0
         THEN get(fr, fr[f].parent, name)
         ELSE None

\* The nearest frame of the chain of f that binds name; 0 when none does.
RECURSIVE binder_of(_, _, _)
binder_of(fr, f, name) ==
    IF name \in DOMAIN fr[f].variables THEN f
    ELSE IF fr[f].parent # 0 THEN binder_of(fr, fr[f].parent, name)
    ELSE 0

\* A declare that overwrites the binding an ancestor has, when there is one.
declare_nearest(fr, f, name, value) ==
    LET b == binder_of(fr, f, name)
        g == IF b = 0 THEN f ELSE b
    IN [frames |-> [fr EXCEPT ![g].variables = Insert(@, name, value)],
        ret    |-> Previous(fr[g].variables, name)]

\* VariableScope::declare: insert into this frame only.
declare(fr, f, name, value) ==
    [frames |-> [fr EXCEPT ![f].variables = Insert(@, name, value)],
     ret    |-> Previous(fr[f].variables, name)]

\* A set that does not bubble up: it writes into the frame it is called on.
set_shadowing(fr, f, name, value) ==
    IF binder_of(fr, f, name) # 0
    THEN [frames |-> [fr EXCEPT ![f].variables = Insert(@, name, value)],
          ret    |-> Some(fr[binder_of(fr, f, name)].variables[name])]
    ELSE [frames |-> fr, ret |-> None]

\* A set that creates the binding in the root when no frame has the name.
RECURSIVE set_creating(_, _, _, _)
set_creating(fr, f, name, value) ==
    IF name \in DOMAIN fr[f].variables \/ fr[f].parent = 0
    THEN [frames |-> [fr EXCEPT ![f].variables = Insert(@, name, value)],
          ret    |-> Previous(fr[f].variables, name)]
    ELSE set_creating(fr, fr[f].parent, name, value)

\* VariableScope::set: insert into the nearest frame that has the name.
RECURSIVE set(_, _, _, _)
set(fr, f, name, value) ==
    IF name \in DOMAIN fr[f].variables
    THEN [frames |-> [fr EXCEPT ![f].variables = Insert(@, name, value)],
          ret    |-> Previous(fr[f].variables, name)]
    ELSE IF fr[f].parent # 0
         THEN set(fr, fr[f].parent, name, value)
         ELSE [frames |-> fr, ret |-> None]

(***************************************************************************)
(* The AST (ast/mod.rs; the variants ast/parser.rs builds).  An            *)
(* Option<Box<..>> field is None or Some(..).                              *)
(***************************************************************************)
ENumber(n) == [k |-> "Number", n |-> n]

EString(s) == [k |-> "String", s |-> s]

EBoolean(b) == [k |-> "Boolean", b |-> b]

EIdentifier(name) == [k |-> "Identifier", name |-> name]

ETuple(values) == [k |-> "Tuple", values |-> values]

EMember(target, field) == [k |-> "Member", target |-> target, field |-> field]

EBinaryOp(op, left, right) ==
    [k |-> "BinaryOp", op |-> op, left |-> left, right |-> right]

EUnaryOp(op, operand) == [k |-> "UnaryOp", op |-> op, operand |-> operand]

ECall(target, args) == [k |-> "Call", target |-> target, args |-> args]

EFunction(arguments, statement) ==
    [k |-> "Function", arguments |-> arguments, statement |-> statement]

EBlock(statements) == [k |-> "Block", statements |-> statements]

SPrint(exprs) == [k |-> "Print", exprs |-> exprs]

SAssignment(target, value) ==
    [k |-> "Assignment", target |-> target, value |-> value]

SDeclaration(target, value) ==
    [k |-> "Declaration", target |-> target, value |-> value]

SIf(condition, then_stmt, else_stmt) ==
    [k |-> "If", condition |-> condition, then_stmt |-> then_stmt,
     else_stmt |-> else_stmt]

SWhile(condition, body) == [k |-> "While", condition |-> condition, body |-> body]

SFor(init, condition, update, body) ==
    [k |-> "For", init |-> init, condition |-> condition, update |-> update,
     body |-> body]

SReturn(expr) == [k |-> "Return", expr |-> expr]

SExpression(expr) == [k |-> "Expression", expr |-> expr]

(***************************************************************************)
(* Results.  A Result<Value> is Ok or Err; Err carries the anyhow chain of *)
(* messages, outermost context first.  Panic is a host-level abort (a Rust *)
(* panic), Diverge an evaluation that used up the model's budget of calls  *)
(* and loop iterations.  Every result carries the machine state `st` the   *)
(* evaluation left behind: [frames, lists, out, calls, fuel, debug].       *)
(***************************************************************************)
Ok(st, v) == [st |-> st, tag |-> "Ok", val |-> v]

Err(st, msg) == [st |-> st, tag |-> "Err", val |-> <<msg>>]

Panic(st, msg) == [st |-> st, tag |-> "Panic", val |-> <<msg>>]

Diverge(st) == [st |-> st, tag |-> "Diverge", val |-> <<>>]

\* anyhow's with_context: an Err gets `msg` as its outermost message.
with_context(r, msg) ==
    IF r.tag = "Err" THEN [r EXCEPT !.val = <<msg>> \o @] ELSE r

IsReturn(r) == r.tag = "Ok" /\ r.val.t = "Return"

\* Error messages, by their fixed part.
UndefinedVariable == "undefined variable"

UndefinedAssign == "is an undefined variable!"

ArityMismatch == "function expected argument(s)"

MissingReturn == "function must return a value"

CallFailed == "function evaluation failed"

NotCallable == "call target is not callable"

ExpectedBoolean == "Expcted boolean"

(***************************************************************************)
(* Operators on values (interpreter/value.rs).  They return a pure result  *)
(* [tag, val]; the evaluator attaches the machine state.                   *)
(***************************************************************************)
POk(v) == [tag |-> "Ok", val |-> v]

PErr(msg) == [tag |-> "Err", val |-> <<msg>>]

PPanic(msg) == [tag |-> "Panic", val |-> <<msg>>]

Lift(st, p) == [st |-> st, tag |-> p.tag, val |-> p.val]

I32Max == 2147483647

I32Min == (-I32Max) - 1

Abs(n) == IF n < 0 THEN -n ELSE n

\* i32 `+` as i32::overflowing_add tells it: the sum modulo 2^32 and
\* whether the exact sum leaves the 32 bits (computed without leaving them).
overflowing_add(x, y) ==
    IF y > 0 /\ x > I32Max - y
    THEN [v |-> (x - I32Max - 1) + (y - I32Max - 1), o |-> TRUE]
    ELSE IF y < 0 /\ x < I32Min - y
    THEN [v |-> (x + I32Max + 1) + (y + I32Max + 1), o |-> TRUE]
    ELSE [v |-> x + y, o |-> FALSE]

\* i32 `-`: the difference modulo 2^32 and whether it overflowed.
overflowing_sub(x, y) ==
    IF y < 0 /\ x > I32Max + y
    THEN [v |-> (x - I32Max - 1) - (y + I32Max + 1), o |-> TRUE]
    ELSE IF y > 0 /\ x < I32Min + y
    THEN [v |-> (x + I32Max + 1) - (y - I32Max - 1), o |-> TRUE]
    ELSE [v |-> x - y, o |-> FALSE]

\* x * y modulo 2^32 for y >= 0, by doubling.
RECURSIVE wrapping_mul(_, _)
wrapping_mul(x, y) ==
    IF y = 0 THEN 0
    ELSE LET odd(h) == IF y % 2 = 1 THEN overflowing_add(h, x).v ELSE h
         IN odd(wrapping_mul(overflowing_add(x, x).v, y \div 2))

\* i32 `*`: the product modulo 2^32 and whether it overflowed.
overflowing_mul(x, y) ==
    LET negated(t) == IF y >= 0 \/ t = I32Min THEN t ELSE -t
        leaves ==
            IF x = 0 \/ y = 0 THEN FALSE
            ELSE IF x = I32Min \/ y = I32Min THEN x # 1 /\ y # 1
            ELSE IF (x < 0) = (y < 0) THEN Abs(x) > I32Max \div Abs(y)
            ELSE /\ Abs(x) > I32Max \div Abs(y)
                 /\ ~(/\ Abs(x) = (I32Max \div Abs(y)) + 1
                      /\ I32Max % Abs(y) = Abs(y) - 1)
    IN IF ~leaves THEN [v |-> x * y, o |-> FALSE]
       ELSE [v |-> IF y = I32Min THEN (IF x % 2 = 1 THEN I32Min ELSE 0)
                   ELSE negated(wrapping_mul(x, Abs(y))),
             o |-> TRUE]

\* i32::pow for an exponent e >= 0, by squaring: the power modulo 2^32 and
\* whether a product on the way overflowed.
RECURSIVE overflowing_pow(_, _)
overflowing_pow(x, e) ==
    IF e = 0 THEN [v |-> 1, o |-> FALSE]
    ELSE LET product(h, m) == [v |-> m.v, o |-> h.o \/ m.o]
             next(h) == product(h, overflowing_mul(h.v, IF e % 2 = 0 THEN h.v ELSE x))
         IN next(overflowing_pow(x, IF e % 2 = 0 THEN e \div 2 ELSE e - 1))

\* The i32 operation `op` on a and b.  When the exact result leaves the 32
\* bits the build decides: with overflow checks it panics, without it takes
\* the result modulo 2^32.
checked(op, a, b, debug) ==
    LET outcome(r) == IF r.o /\ debug THEN PPanic("arithmetic overflow")
                      ELSE POk(Int32(r.v))
    IN outcome(CASE op = "add" -> overflowing_add(a, b)
                 [] op = "sub" -> overflowing_sub(a, b)
                 [] op = "mul" -> overflowing_mul(a, b)
                 [] op = "pow" -> overflowing_pow(a, b))

\* i32 `/`: the quotient truncated toward zero (from the floored quotient,
\* which differs by one when the division is inexact and the signs differ).
TruncDiv(a, b) ==
    LET q == a \div b
        exact == IF b = I32Min THEN a \in {0, I32Min} ELSE a % Abs(b) = 0
    IN IF ~exact /\ ((a < 0) # (b < 0)) THEN q + 1 ELSE q

\* i32 `%`: the remainder, with the sign of the dividend.
TruncRem(a, b) == a - b * TruncDiv(a, b)

\* A conversion by truthiness: zero, the empty string and Null are false.
to_bool_truthy(v) ==
    CASE v.t = "Boolean" -> POk(v.v)
      [] v.t = "Int32" -> POk(v.v # 0)
      [] v.t = "String" -> POk(v.v # "")
      [] v.t = "Null" -> POk(FALSE)
      [] OTHER -> POk(TRUE)

\* Value::to_bool
to_bool(v) == IF v.t = "Boolean" THEN POk(v.v) ELSE PErr(ExpectedBoolean)

\* An equality that compares the variants and not their payloads.
Eq_discriminant(a, b) == a.t = b.t

\* impl PartialEq for Value
Eq(a, b) ==
    \/ a.t = "Null" /\ b.t = "Null"
    \/ /\ a.t \in {"Int32", "Boolean", "String"}
       /\ b.t = a.t
       /\ a.v = b.v

\* String's Ord (a.cmp(b) of two strings): lexicographic by bytes.  Bytes is
\* the printable ASCII letters and digits in the order of their codes.
RECURSIVE cmp(_, _)
cmp(a, b) ==
    LET Bytes == " 0123456789ABCDEFGHIJKLMNOPQRSTUVWXYZ_abcdefghijklmnopqrstuvwxyz"
        byte(c) == CHOOSE i \in 1..Len(Bytes) : SubSeq(Bytes, i, i) = c
    IN IF a = "" THEN (IF b = "" THEN "Equal" ELSE "Less")
       ELSE IF b = "" THEN "Greater"
       ELSE IF Head(a) = Head(b) THEN cmp(Tail(a), Tail(b))
       ELSE IF byte(Head(a)) < byte(Head(b)) THEN "Less" ELSE "Greater"

\* impl PartialOrd for Value: Some(ordering) as "Less"/"Equal"/"Greater".
partial_cmp(a, b) ==
    IF a.t = "Int32" /\ b.t = "Int32"
    THEN Some(IF a.v < b.v THEN "Less" ELSE IF a.v = b.v THEN "Equal" ELSE "Greater")
    ELSE IF a.t = "Boolean" /\ b.t = "Boolean"
    THEN Some(IF a.v = b.v THEN "Equal" ELSE IF b.v THEN "Less" ELSE "Greater")
    ELSE IF a.t = "String" /\ b.t = "String"
    THEN Some(cmp(a.v, b.v))
    ELSE None

\* impl Add / Sub / Mul / Div / Rem / Neg for Value, and Value::pow
Add(a, b, debug) ==
    IF a.t = "Int32" /\ b.t = "Int32" THEN checked("add", a.v, b.v, debug)
    ELSE IF a.t = "String" /\ b.t = "String" THEN POk(String(a.v \o b.v))
    ELSE PErr("Addition not supported")

Sub(a, b, debug) ==
    IF a.t = "Int32" /\ b.t = "Int32" THEN checked("sub", a.v, b.v, debug)
    ELSE PErr("Subtraction not supported")

Mul(a, b, debug) ==
    IF a.t = "Int32" /\ b.t = "Int32" THEN checked("mul", a.v, b.v, debug)
    ELSE PErr("Multiplication not supported")

\* A division whose zero divisor yields Null.
Div_null(a, b, debug) ==
    IF a.t = "Int32" /\ b.t = "Int32"
    THEN IF b.v = 0 THEN POk(Null)
         ELSE IF a.v = I32Min /\ b.v = -1 THEN PPanic("attempt to divide with overflow")
         ELSE POk(Int32(TruncDiv(a.v, b.v)))
    ELSE PErr("Division not supported")

Div(a, b, debug) ==
    IF a.t = "Int32" /\ b.t = "Int32"
    THEN IF b.v = 0 THEN PErr("Division by zero")
         ELSE IF a.v = I32Min /\ b.v = -1 THEN PPanic("attempt to divide with overflow")
         ELSE POk(Int32(TruncDiv(a.v, b.v)))
    ELSE PErr("Division not supported")

Rem(a, b, debug) ==
    IF a.t = "Int32" /\ b.t = "Int32"
    THEN IF b.v = 0 THEN PErr("Modulo by zero")
         ELSE IF a.v = I32Min /\ b.v = -1
         THEN PPanic("attempt to calculate the remainder with overflow")
         ELSE POk(Int32(TruncRem(a.v, b.v)))
    ELSE PErr("Modulo not supported")

Neg(a, debug) ==
    IF a.t = "Int32"
    THEN IF a.v = I32Min
         THEN (IF debug THEN PPanic("arithmetic overflow") ELSE POk(a))
         ELSE POk(Int32(-a.v))
    ELSE PErr("Negation not supported")

pow(a, b, debug) ==
    IF a.t = "Int32" /\ b.t = "Int32"
    THEN IF b.v < 0 THEN PErr("Negative exponents not supported for Int32")
         ELSE checked("pow", a.v, b.v, debug)
    ELSE PErr("Cannot exponentiate")

\* impl Sum for Value: the elements added from the left; a failed addition
\* (`.ok()`) leaves no total, and the next element starts a new one.  No
\* total at the end is Null.
sum(values, debug) ==
    LET RECURSIVE fold(_, _)
        fold(vs, total) ==
            IF vs = <<>> THEN POk(IF total = None THEN Null ELSE total[1])
            ELSE IF total = None THEN fold(Tail(vs), Some(Head(vs)))
            ELSE LET r == Add(total[1], Head(vs), debug) IN
                 IF r.tag = "Panic" THEN r
                 ELSE fold(Tail(vs), IF r.tag = "Ok" THEN Some(r.val) ELSE None)
    IN fold(values, None)

\* Interpreter::eval_binary_op (And / Or go through eval_logical_op).
eval_binary_op(op, left, right, debug) ==
    CASE op = "Add" -> Add(left, right, debug)
      [] op = "Sub" -> Sub(left, right, debug)
      [] op = "Mul" -> Mul(left, right, debug)
      [] op = "Div" -> Div(left, right, debug)
      [] op = "Mod" -> Rem(left, right, debug)
      [] op = "Pow" -> pow(left, right, debug)
      [] op = "Eq"  -> POk(Boolean(Eq(left, right)))
      [] op = "Ne"  -> POk(Boolean(~Eq(left, right)))
      [] op = "Lt"  -> POk(Boolean(partial_cmp(left, right) = Some("Less")))
      [] op = "Le"  -> POk(Boolean(partial_cmp(left, right) \in {Some("Less"), Some("Equal")}))
      [] op = "Gt"  -> POk(Boolean(partial_cmp(left, right) = Some("Greater")))
      [] op = "Ge"  -> POk(Boolean(partial_cmp(left, right) \in {Some("Greater"), Some("Equal")}))

\* Interpreter::eval_unary_op
eval_unary_op(op, operand, debug) ==
    CASE op = "Neg" -> Neg(operand, debug)
      [] op = "Not" -> LET b == to_bool(operand) IN
                       IF b.tag = "Ok" THEN POk(Boolean(~b.val)) ELSE b

\* i32's Display.
IntToString(n) == ToString(n)

RECURSIVE Join(_, _)
Join(strs, sep) ==
    IF strs = <<>> THEN ""
    ELSE IF Len(strs) = 1 THEN strs[1]
    ELSE strs[1] \o sep \o Join(Tail(strs), sep)

\* impl Display for Value.  Functions, built-ins and return-signals render
\* as the empty string.
RECURSIVE to_string(_, _)
to_string(v, cells) ==
    CASE v.t = "Null"    -> "NULL"
      [] v.t = "Int32"   -> IntToString(v.v)
      [] v.t = "Boolean" -> IF v.v THEN "true" ELSE "false"
      [] v.t = "String"  -> v.v
      [] v.t = "List"    ->
            "list(" \o Join([i \in 1..Len(cells[v.v]) |-> to_string(cells[v.v][i], cells)], ", ") \o ")"
      [] v.t = "Tuple"   ->
            "tuple(" \o Join([i \in 1..Len(v.v) |-> to_string(v.v[i], cells)], ", ") \o ")"
      [] OTHER -> ""

(***************************************************************************)
(* The evaluator (interpreter/mod.rs) and the list built-ins               *)
(* (interpreter/builtins/list.rs).  `cur` is the frame of the              *)
(* interpreter (`self.variables`); the stdout sink is `st.out`.            *)
(*                                                                         *)
(* st.lists is the heap of list, set and dictionary cells (a sequence of   *)
(* values, a set of keys, a function from keys to values); st.borrowed     *)
(* the cells a running                                                     *)
(* map/filter/all/any holds a RefCell borrow of; st.calls a history of the *)
(* closure calls made (the frame created, the scope the closure captured   *)
(* and the frame of the caller), kept only to state properties.            *)
(***************************************************************************)
\* The evaluator's functions call one another (`self.eval_expr(..)`,
\* `interpreter.execute_statement(..)`, ...): in the model every such call
\* goes through Apply, the one recursive operator, by the function's name.
RECURSIVE Apply(_, _)

\* args.iter().map(|e| self.eval_expr(e)).collect::<Result<_, _>>():
\* left to right, stopping at the first failure.
eval_exprs(es, cur, st) ==
    IF es = <<>> THEN Ok(st, <<>>)
    ELSE LET r == Apply("eval_expr", <<Head(es), cur, st>>) IN
         IF r.tag # "Ok" THEN r
         ELSE LET rs == Apply("eval_exprs", <<Tail(es), cur, r.st>>) IN
              IF rs.tag # "Ok" THEN rs ELSE Ok(rs.st, <<r.val>> \o rs.val)

\* The capability tables of Expr::Member.
ListMembers_without_sum ==
    {"join", "length", "at", "pop", "push", "map", "filter", "all", "any"}

ListMembers ==
    {"join", "length", "at", "pop", "push", "map", "filter", "all", "any", "sum"}

ListMembersWithInterpreter == {"map", "filter", "all", "any"}

SetMembers ==
    {"has", "union", "intersection", "difference", "add", "remove", "length"}

DictMembers == {"get", "set", "remove", "items", "keys", "values", "length"}

\* Expr::Member: the bound built-in for `field` on the evaluated target.
member(target, field, cur, st) ==
    CASE target.t = "List" ->
            IF field \in ListMembersWithInterpreter
            THEN LET fr == branch(st.frames, cur) IN
                 Ok([st EXCEPT !.frames = fr],
                    BuiltinFn(field, target, "list::" \o field, Len(fr)))
            ELSE IF field \in ListMembers
            THEN Ok(st, BuiltinFn(field, target, "list::" \o field, 0))
            ELSE Err(st, "unknown member on type list")
      [] target.t = "Set" ->
            IF field \in SetMembers
            THEN Ok(st, BuiltinFn(field, target, "set::" \o field, 0))
            ELSE Err(st, "unknown member on type set")
      [] target.t = "Dictionary" ->
            IF field \in DictMembers
            THEN Ok(st, BuiltinFn(field, target, "dict::" \o field, 0))
            ELSE Err(st, "unknown member on type dict")
      [] OTHER -> Err(st, "member access not supported")

\* The frame a function literal captures: a new child of the frame the
\* literal is evaluated in.
CapturedParent(cur) == cur

\* A call frame that is a child of the caller's frame.
call_frame_dynamic(fr, scope, cur) ==
    [frames |-> branch(fr, cur), callee |-> Len(fr) + 1]

\* No frame of its own for the call: the parameters go into the captured scope.
call_frame_shared(fr, scope, cur) == [frames |-> fr, callee |-> scope]

\* Interpreter::new(VariableScope::branch(&scope), ..) of a call: the new
\* frame `callee`, a child of the scope the closure captured.
call_frame(fr, scope, cur) ==
    [frames |-> branch(fr, scope), callee |-> Len(fr) + 1]

\* A call that yields whatever the body evaluated to.
call_result_implicit(res) ==
    IF res.val.t = "Return" THEN Ok(res.st, res.val.v) ELSE Ok(res.st, res.val)

\* `match result` of a call: the return-signal unwrapped, anything else is
\* the missing-return error.
call_result(res) ==
    IF res.val.t = "Return" THEN Ok(res.st, res.val.v)
    ELSE Err(res.st, MissingReturn)

\* A block that runs its statements in the frame of the enclosing scope.
block_frame_enclosing(fr, cur) == [frames |-> fr, scope |-> cur]

\* Interpreter::new(VariableScope::branch(&self.variables), ..) of a block.
block_frame(fr, cur) == [frames |-> branch(fr, cur), scope |-> Len(fr) + 1]

\* A block that goes on after a return-signal.
BlockNeverStops(r) == FALSE

\* Whether the statement loop of a block stops on this statement result.
BlockStops(r) == r.tag = "Ok" /\ r.val.t = "Return"

\* for (param, value) in arguments.zip(evaluated_args): declare in order.
RECURSIVE bind(_, _, _, _)
bind(fr, f, arguments, values) ==
    IF arguments = <<>> \/ values = <<>> THEN fr
    ELSE bind(declare(fr, f, Head(arguments), Head(values)).frames, f,
              Tail(arguments), Tail(values))

eval_expr(e, cur, st) ==
    CASE e.k = "Member" ->
            LET t == Apply("eval_expr", <<e.target, cur, st>>) IN
            IF t.tag # "Ok" THEN t ELSE member(t.val, e.field, cur, t.st)
      [] e.k = "Number"  -> Ok(st, Int32(e.n))
      [] e.k = "String"  -> Ok(st, String(e.s))
      [] e.k = "Boolean" -> Ok(st, Boolean(e.b))
      [] e.k = "Tuple" ->
            LET vs == Apply("eval_exprs", <<e.values, cur, st>>) IN
            IF vs.tag # "Ok" THEN vs ELSE Ok(vs.st, Tuple(vs.val))
      [] e.k = "Identifier" ->
            LET v == get(st.frames, cur, e.name) IN
            IF v = None THEN Err(st, UndefinedVariable) ELSE Ok(st, v[1])
      [] e.k = "BinaryOp" ->
            IF e.op \in {"And", "Or"}
            THEN Apply("eval_logical_op", <<e.op, e.left, e.right, cur, st>>)
            ELSE LET lval == Apply("eval_expr", <<e.left, cur, st>>) IN
                 IF lval.tag # "Ok" THEN lval
                 ELSE LET rval == Apply("eval_expr", <<e.right, cur, lval.st>>) IN
                      IF rval.tag # "Ok" THEN rval
                      ELSE Lift(rval.st,
                                eval_binary_op(e.op, lval.val, rval.val, st.debug))
      [] e.k = "UnaryOp" ->
            LET val == Apply("eval_expr", <<e.operand, cur, st>>) IN
            IF val.tag # "Ok" THEN val
            ELSE Lift(val.st, eval_unary_op(e.op, val.val, st.debug))
      [] e.k = "Call" -> Apply("eval_call", <<e.target, e.args, cur, st>>)
      [] e.k = "Function" ->
            LET fr == branch(st.frames, CapturedParent(cur)) IN
            Ok([st EXCEPT !.frames = fr],
               Function(e.arguments, e.statement, Len(fr)))
      [] e.k = "Block" ->
            LET bf == block_frame(st.frames, cur) IN
            Apply("block_statements", <<e.statements, bf.scope,
                                  [st EXCEPT !.frames = bf.frames]>>)

\* The statement loop of Expr::Block: `if let Ok(Value::Return { value })`
\* returns the return-signal; any other outcome of a statement, an Err
\* included, is dropped and the loop goes on.  (A panic or a divergence is
\* not a value of the Result: it ends the evaluation.)
block_statements(statements, cur, st) ==
    IF statements = <<>> THEN Ok(st, Null)
    ELSE LET r == Apply("execute_statement", <<Head(statements), cur, st>>) IN
         IF BlockStops(r) THEN r
         ELSE IF r.tag \in {"Panic", "Diverge"} THEN r
         ELSE Apply("block_statements", <<Tail(statements), cur, r.st>>)

\* A call that binds the parameters it has arguments for, without a check
\* of their number.
eval_call_unchecked(target, args, cur, st) ==
    LET t == Apply("eval_expr", <<target, cur, st>>) IN
    IF t.tag # "Ok" THEN t
    ELSE CASE t.val.t = "BuiltinFn" ->
                LET evaluated_args == Apply("eval_exprs", <<args, cur, t.st>>) IN
                IF evaluated_args.tag # "Ok" THEN evaluated_args
                ELSE Apply("call_builtin", <<t.val, evaluated_args.val, evaluated_args.st>>)
           [] t.val.t = "Function" ->
                LET evaluated_args == Apply("eval_exprs", <<args, cur, t.st>>) IN
                IF evaluated_args.tag # "Ok" THEN evaluated_args
                     ELSE IF evaluated_args.st.fuel = 0 THEN Diverge(evaluated_args.st)
                     ELSE
                     LET s0 == evaluated_args.st
                         cf == call_frame(s0.frames, t.val.scope, cur)
                         callee == cf.callee
                         s1 == [s0 EXCEPT
                                  !.frames = bind(cf.frames, callee, t.val.arguments,
                                                  evaluated_args.val),
                                  !.fuel = @ - 1,
                                  !.calls = Append(@, [frame |-> callee,
                                                       scope |-> t.val.scope,
                                                       caller |-> cur,
                                                       arguments |-> t.val.arguments,
                                                       values |-> evaluated_args.val])]
                         res == with_context(
                                   Apply("eval_expr", <<t.val.statement, callee, s1>>),
                                   CallFailed)
                     IN  IF res.tag # "Ok" THEN res ELSE call_result(res)
           [] OTHER -> Err(t.st, NotCallable)

\* A call that evaluates its arguments before it checks their number.
eval_call_args_first(target, args, cur, st) ==
    LET t == Apply("eval_expr", <<target, cur, st>>) IN
    IF t.tag # "Ok" THEN t
    ELSE CASE t.val.t = "BuiltinFn" ->
                LET evaluated_args == Apply("eval_exprs", <<args, cur, t.st>>) IN
                IF evaluated_args.tag # "Ok" THEN evaluated_args
                ELSE Apply("call_builtin", <<t.val, evaluated_args.val, evaluated_args.st>>)
           [] t.val.t = "Function" ->
                LET evaluated_args == Apply("eval_exprs", <<args, cur, t.st>>) IN
                IF evaluated_args.tag # "Ok" THEN evaluated_args
                     ELSE IF Len(t.val.arguments) # Len(args)
                     THEN Err(evaluated_args.st, ArityMismatch)
                     ELSE IF evaluated_args.st.fuel = 0 THEN Diverge(evaluated_args.st)
                     ELSE
                     LET s0 == evaluated_args.st
                         cf == call_frame(s0.frames, t.val.scope, cur)
                         callee == cf.callee
                         s1 == [s0 EXCEPT
                                  !.frames = bind(cf.frames, callee, t.val.arguments,
                                                  evaluated_args.val),
                                  !.fuel = @ - 1,
                                  !.calls = Append(@, [frame |-> callee,
                                                       scope |-> t.val.scope,
                                                       caller |-> cur,
                                                       arguments |-> t.val.arguments,
                                                       values |-> evaluated_args.val])]
                         res == with_context(
                                   Apply("eval_expr", <<t.val.statement, callee, s1>>),
                                   CallFailed)
                     IN  IF res.tag # "Ok" THEN res ELSE call_result(res)
           [] OTHER -> Err(t.st, NotCallable)

\* Interpreter::eval_call
eval_call(target, args, cur, st) ==
    LET t == Apply("eval_expr", <<target, cur, st>>) IN
    IF t.tag # "Ok" THEN t
    ELSE CASE t.val.t = "BuiltinFn" ->
                LET evaluated_args == Apply("eval_exprs", <<args, cur, t.st>>) IN
                IF evaluated_args.tag # "Ok" THEN evaluated_args
                ELSE Apply("call_builtin", <<t.val, evaluated_args.val, evaluated_args.st>>)
           [] t.val.t = "Function" ->
                IF Len(t.val.arguments) # Len(args)
                THEN Err(t.st, ArityMismatch)
                ELSE LET evaluated_args == Apply("eval_exprs", <<args, cur, t.st>>) IN
                     IF evaluated_args.tag # "Ok" THEN evaluated_args
                     ELSE IF evaluated_args.st.fuel = 0 THEN Diverge(evaluated_args.st)
                     ELSE
                     LET s0 == evaluated_args.st
                         cf == call_frame(s0.frames, t.val.scope, cur)
                         callee == cf.callee
                         s1 == [s0 EXCEPT
                                  !.frames = bind(cf.frames, callee, t.val.arguments,
                                                  evaluated_args.val),
                                  !.fuel = @ - 1,
                                  !.calls = Append(@, [frame |-> callee,
                                                       scope |-> t.val.scope,
                                                       caller |-> cur,
                                                       arguments |-> t.val.arguments,
                                                       values |-> evaluated_args.val])]
                         res == with_context(
                                   Apply("eval_expr", <<t.val.statement, callee, s1>>),
                                   CallFailed)
                     IN  IF res.tag # "Ok" THEN res ELSE call_result(res)
           [] OTHER -> Err(t.st, NotCallable)

short_circuit_never(op, lbool) == FALSE

\* eval_logical_op: the early returns, `if !lbool` under And and `if lbool`
\* under Or.
short_circuit(op, lbool) ==
    \/ op = "And" /\ ~lbool
    \/ op = "Or" /\ lbool

eval_logical_op(op, left, right, cur, st) ==
    LET lval == Apply("eval_expr", <<left, cur, st>>) IN
    IF lval.tag # "Ok" THEN lval
    ELSE LET lbool == to_bool(lval.val) IN
         IF lbool.tag # "Ok" THEN Lift(lval.st, lbool)
         ELSE IF short_circuit(op, lbool.val)
         THEN Ok(lval.st, Boolean(op = "Or"))
         ELSE LET rval == Apply("eval_expr", <<right, cur, lval.st>>) IN
              IF rval.tag # "Ok" THEN rval
              ELSE LET rbool == to_bool(rval.val) IN
                   IF rbool.tag # "Ok" THEN Lift(rval.st, rbool)
                   ELSE Ok(rval.st, Boolean(rbool.val))

\* Statement::While: the condition before every iteration; a return-signal
\* from the body ends the loop.
while_loop(condition, body, cur, st) ==
    LET c == Apply("eval_expr", <<condition, cur, st>>) IN
    IF c.tag # "Ok" THEN c
    ELSE LET cb == to_bool(c.val) IN
         IF cb.tag # "Ok" THEN Lift(c.st, cb)
         ELSE IF ~cb.val THEN Ok(c.st, Null)
         ELSE IF c.st.fuel = 0 THEN Diverge(c.st)
         ELSE LET b == Apply("eval_expr", <<body, cur, [c.st EXCEPT !.fuel = @ - 1]>>) IN
              IF b.tag # "Ok" THEN b
              ELSE IF b.val.t = "Return" THEN b
              ELSE Apply("while_loop", <<condition, body, cur, b.st>>)

\* The `loop` of Statement::For: condition (when present), body, update
\* (when present).
for_loop(condition, update, body, cur, st) ==
    LET c == IF condition = None THEN Ok(st, Boolean(TRUE))
             ELSE Apply("eval_expr", <<condition[1], cur, st>>)
    IN
    IF c.tag # "Ok" THEN c
    ELSE LET cb == to_bool(c.val) IN
         IF cb.tag # "Ok" THEN Lift(c.st, cb)
         ELSE IF ~cb.val THEN Ok(c.st, Null)
         ELSE IF c.st.fuel = 0 THEN Diverge(c.st)
         ELSE LET b == Apply("eval_expr", <<body, cur, [c.st EXCEPT !.fuel = @ - 1]>>) IN
              IF b.tag # "Ok" THEN b
              ELSE IF b.val.t = "Return" THEN b
              ELSE LET u == IF update = None THEN Ok(b.st, Null)
                            ELSE Apply("execute_statement", <<update[1], cur, b.st>>)
                   IN IF u.tag # "Ok" THEN u
                      ELSE Apply("for_loop", <<condition, update, body, cur, u.st>>)

\* A print that ends the line it has begun when an argument fails.
execute_statement_partial(stmt, cur, st) ==
    CASE stmt.k = "Print" ->
            LET values == Apply("eval_exprs", <<stmt.exprs, cur, st>>) IN
            IF values.tag # "Ok" THEN [values EXCEPT !.st.out = Append(@, "")]
            ELSE LET output == [i \in 1..Len(values.val) |->
                                   to_string(values.val[i], values.st.lists)]
                 IN Ok([values.st EXCEPT !.out = Append(@, Join(output, " "))], Null)
      [] stmt.k = "Assignment" ->
            LET new_value == Apply("eval_expr", <<stmt.value, cur, st>>) IN
            IF new_value.tag # "Ok" THEN new_value
            ELSE LET s == set(new_value.st.frames, cur, stmt.target, new_value.val) IN
                 IF s.ret # None
                 THEN Ok([new_value.st EXCEPT !.frames = s.frames], Null)
                 ELSE Err([new_value.st EXCEPT !.frames = s.frames], UndefinedAssign)
      [] stmt.k = "Declaration" ->
            LET new_value == Apply("eval_expr", <<stmt.value, cur, st>>) IN
            IF new_value.tag # "Ok" THEN new_value
            ELSE Ok([new_value.st EXCEPT !.frames =
                        declare(@, cur, stmt.target, new_value.val).frames], Null)
      [] stmt.k = "If" ->
            LET cond_val == Apply("eval_expr", <<stmt.condition, cur, st>>) IN
            IF cond_val.tag # "Ok" THEN cond_val
            ELSE LET cb == to_bool(cond_val.val) IN
                 IF cb.tag # "Ok" THEN Lift(cond_val.st, cb)
                 ELSE IF cb.val THEN Apply("eval_expr", <<stmt.then_stmt, cur, cond_val.st>>)
                 ELSE IF stmt.else_stmt # None
                 THEN Apply("eval_expr", <<stmt.else_stmt[1], cur, cond_val.st>>)
                 ELSE Ok(cond_val.st, Null)
      [] stmt.k = "While" -> Apply("while_loop", <<stmt.condition, stmt.body, cur, st>>)
      [] stmt.k = "For" ->
            LET i == IF stmt.init = None THEN Ok(st, Null)
                     ELSE Apply("execute_statement", <<stmt.init[1], cur, st>>)
            IN IF i.tag # "Ok" THEN i
               ELSE Apply("for_loop", <<stmt.condition, stmt.update, stmt.body, cur, i.st>>)
      [] stmt.k = "Return" ->
            LET value == Apply("eval_expr", <<stmt.expr, cur, st>>) IN
            IF value.tag # "Ok" THEN value ELSE Ok(value.st, Return(value.val))
      [] stmt.k = "Expression" -> Apply("eval_expr", <<stmt.expr, cur, st>>)

\* Interpreter::execute_statement
execute_statement_null(stmt, cur, st) ==
    CASE stmt.k = "Print" ->
            LET values == Apply("eval_exprs", <<stmt.exprs, cur, st>>) IN
            IF values.tag # "Ok" THEN values
            ELSE LET output == [i \in 1..Len(values.val) |->
                                   to_string(values.val[i], values.st.lists)]
                 IN Ok([values.st EXCEPT !.out = Append(@, Join(output, " "))], Null)
      [] stmt.k = "Assignment" ->
            LET new_value == Apply("eval_expr", <<stmt.value, cur, st>>) IN
            IF new_value.tag # "Ok" THEN new_value
            ELSE LET s == set(new_value.st.frames, cur, stmt.target, new_value.val) IN
                 IF s.ret # None
                 THEN Ok([new_value.st EXCEPT !.frames = s.frames], Null)
                 ELSE Err([new_value.st EXCEPT !.frames = s.frames], UndefinedAssign)
      [] stmt.k = "Declaration" ->
            LET new_value == Apply("eval_expr", <<stmt.value, cur, st>>) IN
            IF new_value.tag # "Ok" THEN new_value
            ELSE Ok([new_value.st EXCEPT !.frames =
                        declare(@, cur, stmt.target, new_value.val).frames], Null)
      [] stmt.k = "If" ->
            LET cond_val == Apply("eval_expr", <<stmt.condition, cur, st>>) IN
            IF cond_val.tag # "Ok" THEN cond_val
            ELSE LET cb == to_bool(cond_val.val) IN
                 IF cb.tag # "Ok" THEN Lift(cond_val.st, cb)
                 ELSE IF cb.val THEN Apply("eval_expr", <<stmt.then_stmt, cur, cond_val.st>>)
                 ELSE IF stmt.else_stmt # None
                 THEN Apply("eval_expr", <<stmt.else_stmt[1], cur, cond_val.st>>)
                 ELSE Ok(cond_val.st, Null)
      [] stmt.k = "While" -> Apply("while_loop", <<stmt.condition, stmt.body, cur, st>>)
      [] stmt.k = "For" ->
            LET i == IF stmt.init = None THEN Ok(st, Null)
                     ELSE Apply("execute_statement", <<stmt.init[1], cur, st>>)
            IN IF i.tag # "Ok" THEN i
               ELSE Apply("for_loop", <<stmt.condition, stmt.update, stmt.body, cur, i.st>>)
      [] stmt.k = "Return" ->
            LET value == Apply("eval_expr", <<stmt.expr, cur, st>>) IN
            IF value.tag # "Ok" THEN value ELSE Ok(value.st, Return(value.val))
      [] stmt.k = "Expression" ->
            LET value == Apply("eval_expr", <<stmt.expr, cur, st>>) IN
            IF value.tag # "Ok" THEN value ELSE Ok(value.st, Null)

execute_statement(stmt, cur, st) ==
    CASE stmt.k = "Print" ->
            LET values == Apply("eval_exprs", <<stmt.exprs, cur, st>>) IN
            IF values.tag # "Ok" THEN values
            ELSE LET output == [i \in 1..Len(values.val) |->
                                   to_string(values.val[i], values.st.lists)]
                 IN Ok([values.st EXCEPT !.out = Append(@, Join(output, " "))], Null)
      [] stmt.k = "Assignment" ->
            LET new_value == Apply("eval_expr", <<stmt.value, cur, st>>) IN
            IF new_value.tag # "Ok" THEN new_value
            ELSE LET s == set(new_value.st.frames, cur, stmt.target, new_value.val) IN
                 IF s.ret # None
                 THEN Ok([new_value.st EXCEPT !.frames = s.frames], Null)
                 ELSE Err([new_value.st EXCEPT !.frames = s.frames], UndefinedAssign)
      [] stmt.k = "Declaration" ->
            LET new_value == Apply("eval_expr", <<stmt.value, cur, st>>) IN
            IF new_value.tag # "Ok" THEN new_value
            ELSE Ok([new_value.st EXCEPT !.frames =
                        declare(@, cur, stmt.target, new_value.val).frames], Null)
      [] stmt.k = "If" ->
            LET cond_val == Apply("eval_expr", <<stmt.condition, cur, st>>) IN
            IF cond_val.tag # "Ok" THEN cond_val
            ELSE LET cb == to_bool(cond_val.val) IN
                 IF cb.tag # "Ok" THEN Lift(cond_val.st, cb)
                 ELSE IF cb.val THEN Apply("eval_expr", <<stmt.then_stmt, cur, cond_val.st>>)
                 ELSE IF stmt.else_stmt # None
                 THEN Apply("eval_expr", <<stmt.else_stmt[1], cur, cond_val.st>>)
                 ELSE Ok(cond_val.st, Null)
      [] stmt.k = "While" -> Apply("while_loop", <<stmt.condition, stmt.body, cur, st>>)
      [] stmt.k = "For" ->
            LET i == IF stmt.init = None THEN Ok(st, Null)
                     ELSE Apply("execute_statement", <<stmt.init[1], cur, st>>)
            IN IF i.tag # "Ok" THEN i
               ELSE Apply("for_loop", <<stmt.condition, stmt.update, stmt.body, cur, i.st>>)
      [] stmt.k = "Return" ->
            LET value == Apply("eval_expr", <<stmt.expr, cur, st>>) IN
            IF value.tag # "Ok" THEN value ELSE Ok(value.st, Return(value.val))
      [] stmt.k = "Expression" -> Apply("eval_expr", <<stmt.expr, cur, st>>)

\* builtins::list::expect_return
expect_return(from, fname) ==
    IF from.val.t = "Return" THEN Ok(from.st, from.val.v)
    ELSE Err(from.st, fname \o ": " \o MissingReturn)

\* One run of the callback of map / filter / all / any on the element v: a
\* new child of the closure's captured scope, the parameter bound in it, the
\* body evaluated and its return-signal unwrapped.
run_callback(fname, callback, param, v, st) ==
    IF st.fuel = 0 THEN Diverge(st)
    ELSE LET fr == branch(st.frames, callback.scope)
             child == Len(fr)
             s1 == [st EXCEPT
                      !.frames = declare(fr, child, param, v).frames,
                      !.fuel = @ - 1,
                      !.calls = Append(@, [frame |-> child,
                                           scope |-> callback.scope,
                                           caller |-> 0,
                                           arguments |-> <<param>>,
                                           values |-> <<v>>])]
             evaluated == with_context(Apply("eval_expr", <<callback.statement, child, s1>>),
                                       fname \o ": " \o CallFailed)
         IN IF evaluated.tag # "Ok" THEN evaluated
            ELSE expect_return(evaluated, fname)

\* The element loops of the four higher-order built-ins, over the cell `ref`
\* from index i on.
map_loop(callback, param, ref, i, acc, st) ==
    IF i > Len(st.lists[ref]) THEN Ok(st, acc)
    ELSE LET r == Apply("run_callback", <<"map", callback, param, st.lists[ref][i], st>>) IN
         IF r.tag # "Ok" THEN r
         ELSE Apply("map_loop", <<callback, param, ref, i + 1, Append(acc, r.val), r.st>>)

\* A filter that keeps the elements its callback rejects.
filter_loop_rejected(callback, param, ref, i, acc, st) ==
    IF i > Len(st.lists[ref]) THEN Ok(st, acc)
    ELSE LET v == st.lists[ref][i]
             r == Apply("run_callback", <<"filter", callback, param, v, st>>)
         IN IF r.tag # "Ok" THEN r
            ELSE LET b == to_bool(r.val) IN
                 IF b.tag # "Ok" THEN Lift(r.st, b)
                 ELSE Apply("filter_loop", <<callback, param, ref, i + 1,
                                  IF b.val THEN acc ELSE Append(acc, v), r.st>>)

filter_loop(callback, param, ref, i, acc, st) ==
    IF i > Len(st.lists[ref]) THEN Ok(st, acc)
    ELSE LET v == st.lists[ref][i]
             r == Apply("run_callback", <<"filter", callback, param, v, st>>)
         IN IF r.tag # "Ok" THEN r
            ELSE LET b == to_bool(r.val) IN
                 IF b.tag # "Ok" THEN Lift(r.st, b)
                 ELSE Apply("filter_loop", <<callback, param, ref, i + 1,
                                  IF b.val THEN Append(acc, v) ELSE acc, r.st>>)

\* An all that visits every element before it answers.
all_loop_eager(callback, param, ref, i, st) ==
    IF i > Len(st.lists[ref]) THEN Ok(st, Boolean(TRUE))
    ELSE LET r == Apply("run_callback", <<"all", callback, param, st.lists[ref][i], st>>) IN
         IF r.tag # "Ok" THEN r
         ELSE LET b == to_bool(r.val) IN
              IF b.tag # "Ok" THEN Lift(r.st, b)
              ELSE LET rest == Apply("all_loop", <<callback, param, ref, i + 1, r.st>>) IN
                   IF rest.tag # "Ok" \/ b.val THEN rest
                   ELSE Ok(rest.st, Boolean(FALSE))

all_loop(callback, param, ref, i, st) ==
    IF i > Len(st.lists[ref]) THEN Ok(st, Boolean(TRUE))
    ELSE LET r == Apply("run_callback", <<"all", callback, param, st.lists[ref][i], st>>) IN
         IF r.tag # "Ok" THEN r
         ELSE LET b == to_bool(r.val) IN
              IF b.tag # "Ok" THEN Lift(r.st, b)
              ELSE IF ~b.val THEN Ok(r.st, Boolean(FALSE))
              ELSE Apply("all_loop", <<callback, param, ref, i + 1, r.st>>)

any_loop(callback, param, ref, i, st) ==
    IF i > Len(st.lists[ref]) THEN Ok(st, Boolean(FALSE))
    ELSE LET r == Apply("run_callback", <<"any", callback, param, st.lists[ref][i], st>>) IN
         IF r.tag # "Ok" THEN r
         ELSE LET b == to_bool(r.val) IN
              IF b.tag # "Ok" THEN Lift(r.st, b)
              ELSE IF b.val THEN Ok(r.st, Boolean(TRUE))
              ELSE Apply("any_loop", <<callback, param, ref, i + 1, r.st>>)

\* A new list cell holding `values`.
new_list(st, values) ==
    Ok([st EXCEPT !.lists = Append(@, values)], List(Len(st.lists) + 1))

\* The RefCell of the cell `ref` while a built-in iterates over it.
Borrow(st, ref) == [st EXCEPT !.borrowed = <<ref>> \o @]

Release(r) ==
    IF r.tag \in {"Ok", "Err"} THEN [r EXCEPT !.st.borrowed = Tail(@)] ELSE r

IsBorrowed(st, ref) == \E i \in 1..Len(st.borrowed) : st.borrowed[i] = ref

\* map / filter / all / any: expect_callable, the first parameter,
\* expect_list, then the loop under `values.borrow()`.
\* map / filter / all / any that take one argument and no more.
higher_order_exactly_one(fname, this, args, st) ==
    IF Len(args) # 1 THEN Err(st, fname \o ": missing function argument")
    ELSE IF args[1].t # "Function"
    THEN Err(st, fname \o ": first argument must be a function")
    ELSE IF args[1].arguments = <<>>
    THEN Err(st, fname \o ": function must accept at least 1 parameter")
    ELSE IF this.t # "List" THEN Err(st, fname \o ": receiver is not a list")
    ELSE LET callback == args[1]
             param == callback.arguments[1]
             ref == this.v
             s1 == Borrow(st, ref)
         IN CASE fname = "map" ->
                    LET r == Release(Apply("map_loop", <<callback, param, ref, 1, <<>>, s1>>)) IN
                    IF r.tag # "Ok" THEN r ELSE new_list(r.st, r.val)
              [] fname = "filter" ->
                    LET r == Release(Apply("filter_loop", <<callback, param, ref, 1, <<>>, s1>>)) IN
                    IF r.tag # "Ok" THEN r ELSE new_list(r.st, r.val)
              [] fname = "all" -> Release(Apply("all_loop", <<callback, param, ref, 1, s1>>))
              [] fname = "any" -> Release(Apply("any_loop", <<callback, param, ref, 1, s1>>))

higher_order(fname, this, args, st) ==
    IF args = <<>> THEN Err(st, fname \o ": missing function argument")
    ELSE IF args[1].t # "Function"
    THEN Err(st, fname \o ": first argument must be a function")
    ELSE IF args[1].arguments = <<>>
    THEN Err(st, fname \o ": function must accept at least 1 parameter")
    ELSE IF this.t # "List" THEN Err(st, fname \o ": receiver is not a list")
    ELSE LET callback == args[1]
             param == callback.arguments[1]
             ref == this.v
             s1 == Borrow(st, ref)
         IN CASE fname = "map" ->
                    LET r == Release(Apply("map_loop", <<callback, param, ref, 1, <<>>, s1>>)) IN
                    IF r.tag # "Ok" THEN r ELSE new_list(r.st, r.val)
              [] fname = "filter" ->
                    LET r == Release(Apply("filter_loop", <<callback, param, ref, 1, <<>>, s1>>)) IN
                    IF r.tag # "Ok" THEN r ELSE new_list(r.st, r.val)
              [] fname = "all" -> Release(Apply("all_loop", <<callback, param, ref, 1, s1>>))
              [] fname = "any" -> Release(Apply("any_loop", <<callback, param, ref, 1, s1>>))

\* A key made of any value.
try_from_any(v) ==
    CASE v.t = "Null" -> POk([h |-> "Null"])
      [] v.t = "Int32" -> POk([h |-> "Int32", i |-> v.v])
      [] v.t = "Boolean" -> POk([h |-> "Boolean", b |-> v.v])
      [] v.t = "String" -> POk([h |-> "String", s |-> v.v])
      [] OTHER -> POk([h |-> v.t, o |-> v.v])

\* A key that takes a boolean for the integer 1 or 0.
try_from_truthy(v) ==
    CASE v.t = "Null" -> POk([h |-> "Null"])
      [] v.t = "Int32" -> POk([h |-> "Int32", i |-> v.v])
      [] v.t = "Boolean" -> POk([h |-> "Int32", i |-> IF v.v THEN 1 ELSE 0])
      [] v.t = "String" -> POk([h |-> "String", s |-> v.v])
      [] OTHER -> PErr("invalid key")

\* Hashable::try_from: the key of a null, integer, boolean or string value.
try_from(v) ==
    CASE v.t = "Null" -> POk([h |-> "Null"])
      [] v.t = "Int32" -> POk([h |-> "Int32", i |-> v.v])
      [] v.t = "Boolean" -> POk([h |-> "Boolean", b |-> v.v])
      [] v.t = "String" -> POk([h |-> "String", s |-> v.v])
      [] OTHER -> PErr("invalid key")

\* A mutation that lands in a copy of the cell.
borrow_mut_clone(st, ref, values) == [st EXCEPT !.lists = Append(@, values)]

\* values.borrow_mut(): the cell `ref` becomes `values`, for every holder of
\* the reference.
borrow_mut(st, ref, values) == [st EXCEPT !.lists[ref] = values]

\* Every operation taken for the union.
set_op_union(fname, values, other_values) == values \cup other_values

\* HashSet::union / intersection / difference.
set_op(fname, values, other_values) ==
    CASE fname = "union" -> values \cup other_values
      [] fname = "intersection" -> values \cap other_values
      [] fname = "difference" -> values \ other_values

\* builtins/set.rs.  A set cell is the set of its Hashable members.
set_builtin(fname, this, args, st) ==
    CASE fname = "set" ->
            LET keys == [i \in 1..Len(args) |-> try_from(args[i])] IN
            IF \E i \in 1..Len(args) : keys[i].tag # "Ok"
            THEN Err(st, "invalid key")
            ELSE Ok([st EXCEPT !.lists = Append(@, {keys[i].val : i \in 1..Len(args)})],
                    ValueSet(Len(st.lists) + 1))
      [] fname \in {"union", "intersection", "difference"} ->
            IF this.t = "Set" /\ args # <<>> /\ args[1].t = "Set"
            THEN Ok([st EXCEPT !.lists = Append(@, set_op(fname, st.lists[this.v],
                                                          st.lists[args[1].v]))],
                    ValueSet(Len(st.lists) + 1))
            ELSE Ok(st, Null)
      [] fname = "length" ->
            IF this.t = "Set" THEN Ok(st, Int32(Cardinality(st.lists[this.v])))
            ELSE Ok(st, Null)
      [] fname \in {"has", "add", "remove"} ->
            IF this.t # "Set" \/ args = <<>> THEN Ok(st, Null)
            ELSE LET hashable == try_from(args[1])
                     values == st.lists[this.v]
                 IN IF hashable.tag # "Ok" THEN Ok(st, Null)
                    ELSE CASE fname = "has" ->
                                 Ok(st, Boolean(hashable.val \in values))
                           [] fname = "add" ->
                                 Ok(borrow_mut(st, this.v, values \cup {hashable.val}),
                                    Null)
                           [] fname = "remove" ->
                                 Ok(borrow_mut(st, this.v, values \ {hashable.val}),
                                    Null)

\* dict(...): the entries inserted from position i on; the first entry that
\* is not a tuple of two values, or whose key is not hashable, is the error.
RECURSIVE dict_entries(_, _, _, _)
dict_entries(map, args, i, st) ==
    IF i > Len(args)
    THEN Ok([st EXCEPT !.lists = Append(@, map)], Dictionary(Len(st.lists) + 1))
    ELSE IF args[i].t # "Tuple"
    THEN with_context(Err(st, "dict: expected Tuple(key, value)"),
                      "dict: invalid entry at position")
    ELSE IF Len(args[i].v) # 2
    THEN with_context(Err(st, "dict: expected Tuple of length 2"),
                      "dict: invalid entry at position")
    ELSE LET key == try_from(args[i].v[1]) IN
         IF key.tag # "Ok"
         THEN with_context(with_context(Lift(st, key), "dict: key is not hashable"),
                           "dict: bad key at position")
         ELSE dict_entries(Insert(map, key.val, args[i].v[2]), args, i + 1, st)

\* builtins/dict.rs.  A dictionary cell is the function from its Hashable
\* keys to their values.
dict_builtin(fname, this, args, st) ==
    CASE fname = "dict" -> dict_entries(<<>>, args, 1, st)
      [] fname = "length" ->
            IF this.t # "Dictionary"
            THEN Err(st, "length: receiver is not a dictionary")
            ELSE Ok(st, Int32(Cardinality(DOMAIN st.lists[this.v])))
      [] fname \in {"get", "set", "remove"} ->
            IF Len(args) # (IF fname = "set" THEN 2 ELSE 1)
            THEN Err(st, fname \o ": expected argument(s)")
            ELSE IF this.t # "Dictionary"
            THEN Err(st, fname \o ": receiver is not a dictionary")
            ELSE LET key == try_from(args[1])
                     values == st.lists[this.v]
                     found == key.val \in DOMAIN values
                 IN IF key.tag # "Ok"
                    THEN with_context(Lift(st, key), fname \o ": key is not hashable")
                    ELSE CASE fname = "get" ->
                                 Ok(st, IF found THEN values[key.val] ELSE Null)
                           [] fname = "set" ->
                                 Ok(borrow_mut(st, this.v,
                                               Insert(values, key.val, args[2])),
                                    Null)
                           [] fname = "remove" ->
                                 Ok(borrow_mut(st, this.v,
                                        [k \in (DOMAIN values) \ {key.val} |-> values[k]]),
                                    IF found THEN values[key.val] ELSE Null)

\* The built-ins with a pop that takes the first element.
call_builtin_pop_front(b, args, st) ==
    CASE b.f = "list::new" -> new_list(st, args)
      [] b.f = "list::length" ->
            IF b.this.t # "List" THEN Err(st, "length: receiver is not a list")
            ELSE Ok(st, Int32(Len(st.lists[b.this.v])))
      [] b.f = "list::push" ->
            IF Len(args) < 1 THEN Err(st, "push: expected at least 1 argument(s)")
            ELSE IF b.this.t # "List" THEN Err(st, "push: receiver is not a list")
            ELSE IF IsBorrowed(st, b.this.v) THEN Panic(st, "already borrowed")
            ELSE LET s1 == borrow_mut(st, b.this.v, st.lists[b.this.v] \o args) IN
                 Ok(s1, Int32(Len(s1.lists[b.this.v])))
      [] b.f = "list::pop" ->
            IF b.this.t # "List" THEN Err(st, "pop: receiver is not a list")
            ELSE IF IsBorrowed(st, b.this.v) THEN Panic(st, "already borrowed")
            ELSE LET l == st.lists[b.this.v] IN
                 IF l = <<>> THEN Err(st, "pop: cannot pop from an empty list")
                 ELSE Ok(borrow_mut(st, b.this.v, Tail(l)), Head(l))
      [] b.f = "list::at" ->
            IF args = <<>> THEN Err(st, "at: missing index argument")
            ELSE IF args[1].t # "Int32" THEN Err(st, "at: index must be Int32")
            ELSE IF args[1].v < 0 THEN Err(st, "at: index must be non-negative")
            ELSE IF b.this.t # "List" THEN Err(st, "at: receiver is not a list")
            ELSE IF args[1].v >= Len(st.lists[b.this.v])
            THEN Err(st, "at: index out of bounds")
            ELSE Ok(st, st.lists[b.this.v][args[1].v + 1])
      [] b.f \in {"list::map", "list::filter", "list::all", "list::any"} ->
            higher_order(b.name, b.this, args, st)
      [] b.f \in {"set::set"} \cup {"set::" \o m : m \in SetMembers} ->
            set_builtin(b.name, b.this, args, st)
      [] b.f \in {"dict::dict", "dict::get", "dict::set", "dict::remove",
                  "dict::length"} ->
            dict_builtin(b.name, b.this, args, st)

\* BuiltinFn::call: the native function on the bound receiver.
call_builtin(b, args, st) ==
    CASE b.f = "list::new" -> new_list(st, args)
      [] b.f = "list::length" ->
            IF b.this.t # "List" THEN Err(st, "length: receiver is not a list")
            ELSE Ok(st, Int32(Len(st.lists[b.this.v])))
      [] b.f = "list::push" ->
            IF Len(args) < 1 THEN Err(st, "push: expected at least 1 argument(s)")
            ELSE IF b.this.t # "List" THEN Err(st, "push: receiver is not a list")
            ELSE IF IsBorrowed(st, b.this.v) THEN Panic(st, "already borrowed")
            ELSE LET s1 == borrow_mut(st, b.this.v, st.lists[b.this.v] \o args) IN
                 Ok(s1, Int32(Len(s1.lists[b.this.v])))
      [] b.f = "list::pop" ->
            IF b.this.t # "List" THEN Err(st, "pop: receiver is not a list")
            ELSE IF IsBorrowed(st, b.this.v) THEN Panic(st, "already borrowed")
            ELSE LET l == st.lists[b.this.v] IN
                 IF l = <<>> THEN Err(st, "pop: cannot pop from an empty list")
                 ELSE Ok(borrow_mut(st, b.this.v, SubSeq(l, 1, Len(l) - 1)),
                         l[Len(l)])
      [] b.f = "list::at" ->
            IF args = <<>> THEN Err(st, "at: missing index argument")
            ELSE IF args[1].t # "Int32" THEN Err(st, "at: index must be Int32")
            ELSE IF args[1].v < 0 THEN Err(st, "at: index must be non-negative")
            ELSE IF b.this.t # "List" THEN Err(st, "at: receiver is not a list")
            ELSE IF args[1].v >= Len(st.lists[b.this.v])
            THEN Err(st, "at: index out of bounds")
            ELSE Ok(st, st.lists[b.this.v][args[1].v + 1])
      [] b.f = "list::sum" ->
            IF b.this.t # "List" THEN Err(st, "sum: receiver is not a list")
            ELSE Lift(st, sum(st.lists[b.this.v], st.debug))
      [] b.f \in {"list::map", "list::filter", "list::all", "list::any"} ->
            higher_order(b.name, b.this, args, st)
      [] b.f \in {"set::set"} \cup {"set::" \o m : m \in SetMembers} ->
            set_builtin(b.name, b.this, args, st)
      [] b.f \in {"dict::dict", "dict::get", "dict::set", "dict::remove",
                  "dict::length"} ->
            dict_builtin(b.name, b.this, args, st)

Apply(fn, a) ==
    CASE fn = "eval_expr" -> eval_expr(a[1], a[2], a[3])
      [] fn = "eval_exprs" -> eval_exprs(a[1], a[2], a[3])
      [] fn = "eval_call" -> eval_call(a[1], a[2], a[3], a[4])
      [] fn = "eval_logical_op" -> eval_logical_op(a[1], a[2], a[3], a[4], a[5])
      [] fn = "block_statements" -> block_statements(a[1], a[2], a[3])
      [] fn = "execute_statement" -> execute_statement(a[1], a[2], a[3])
      [] fn = "while_loop" -> while_loop(a[1], a[2], a[3], a[4])
      [] fn = "for_loop" -> for_loop(a[1], a[2], a[3], a[4], a[5])
      [] fn = "call_builtin" -> call_builtin(a[1], a[2], a[3])
      [] fn = "run_callback" -> run_callback(a[1], a[2], a[3], a[4], a[5])
      [] fn = "map_loop" -> map_loop(a[1], a[2], a[3], a[4], a[5], a[6])
      [] fn = "filter_loop" -> filter_loop(a[1], a[2], a[3], a[4], a[5], a[6])
      [] fn = "all_loop" -> all_loop(a[1], a[2], a[3], a[4], a[5])
      [] fn = "any_loop" -> any_loop(a[1], a[2], a[3], a[4], a[5])

(***************************************************************************)
(* The machine state an evaluation starts from.                            *)
(***************************************************************************)
MaxFuel == 12

Builds == {TRUE, FALSE}

\* The machine state a top-level evaluation starts from.
State ==
    [frames |-> frames, lists |-> lists, out |-> out, calls |-> calls,
     fuel |-> MaxFuel, debug |-> build, borrowed |-> <<>>]

NoProgram == [family |-> "none", statements |-> <<>>]

Running == [tag |-> "Running", val |-> <<>>]

(***************************************************************************)
(* SpecScope: the frames under any sequence of calls of the VariableScope  *)
(* interface (branch, get, declare, set, as variable_scope.rs's tests make *)
(* them) and of assignment statements executed by an interpreter on a      *)
(* frame.  `last` records the last call: its arguments, the frames before  *)
(* it (`pre`), what it returned (`ret`) and, for a statement that failed,  *)
(* the error (`err`).                                                      *)
(***************************************************************************)
\* The bindings the calls write: x takes two values, y one.
ScopeWrites == {<<"x", Int32(1)>>, <<"x", Int32(2)>>, <<"y", Int32(1)>>}

NoCall == [op |-> "new", f |-> 0, name |-> "", value |-> Null, ret |-> None,
           err |-> <<>>, pre |-> <<>>]

Call(op, f, name, value, ret, err) ==
    [op |-> op, f |-> f, name |-> name, value |-> value, ret |-> ret,
     err |-> err, pre |-> frames]

InitScope ==
    /\ frames = new
    /\ last = NoCall
    /\ lists = <<>>
    /\ out = <<>>
    /\ calls = <<>>
    /\ build = FALSE
    /\ prog = NoProgram
    /\ pc = 0
    /\ result = Running

Branch(parent) ==
    /\ Len(frames) < MaxFrames
    /\ frames' = branch(frames, parent)
    /\ last' = Call("branch", parent, "", Null, None, <<>>)
    /\ UNCHANGED <<lists, out, calls, build, prog, pc, result>>

Get(f, name) ==
    /\ last' = Call("get", f, name, Null, get(frames, f, name), <<>>)
    /\ UNCHANGED <<frames, lists, out, calls, build, prog, pc, result>>

Declare(f, name, value) ==
    LET r == declare(frames, f, name, value) IN
    /\ frames' = r.frames
    /\ last' = Call("declare", f, name, value, r.ret, <<>>)
    /\ UNCHANGED <<lists, out, calls, build, prog, pc, result>>

Set(f, name, value) ==
    LET r == set(frames, f, name, value) IN
    /\ frames' = r.frames
    /\ last' = Call("set", f, name, value, r.ret, <<>>)
    /\ UNCHANGED <<lists, out, calls, build, prog, pc, result>>

\* The statement `name = n` executed by an interpreter whose scope is f.
Assign(f, name, value) ==
    LET assigned(r) ==
           /\ frames' = r.st.frames
           /\ last' = Call("assign", f, name, value,
                           IF r.tag = "Ok" THEN Some(r.val) ELSE None,
                           IF r.tag = "Ok" THEN <<>> ELSE r.val)
    IN
    /\ assigned(execute_statement(SAssignment(name, ENumber(value.v)), f, State))
    /\ UNCHANGED <<lists, out, calls, build, prog, pc, result>>

NextScope ==
    \/ \E parent \in 1..Len(frames) : Branch(parent)
    \/ \E f \in 1..Len(frames), name \in Names : Get(f, name)
    \/ \E f \in 1..Len(frames), w \in ScopeWrites : Declare(f, w[1], w[2])
    \/ \E f \in 1..Len(frames), w \in ScopeWrites : Set(f, w[1], w[2])
    \/ \E f \in 1..Len(frames), w \in ScopeWrites : Assign(f, w[1], w[2])

SpecScope == InitScope /\ [][NextScope]_vars

(***************************************************************************)
(* The chain of a frame, stated without recursion on the frames: g is on   *)
(* the chain of f at distance d.                                           *)
(***************************************************************************)
RECURSIVE Ancestor(_, _, _)
Ancestor(fr, f, d) == IF d = 0 THEN f ELSE Ancestor(fr, fr[f].parent, d - 1)

RECURSIVE Depth(_, _)
Depth(fr, f) == IF fr[f].parent = 0 THEN 0 ELSE 1 + Depth(fr, fr[f].parent)

\* The distances at which the chain of f binds name.
Binders(fr, f, name) ==
    {d \in 0..Depth(fr, f) : name \in DOMAIN fr[Ancestor(fr, f, d)].variables}

Bound(fr, f, name) == Binders(fr, f, name) # {}

\* The nearest frame of the chain of f that binds name.
Nearest(fr, f, name) ==
    Ancestor(fr, f, CHOOSE d \in Binders(fr, f, name) :
                        \A e \in Binders(fr, f, name) : d <= e)

\* C1: get(name) on frame f returns the value bound in the nearest frame of
\* f's chain that binds name, returns absent exactly when no frame of the
\* chain binds it, and changes no frame.
C1_GetNearest ==
    last.op = "get" =>
        /\ frames = last.pre
        /\ (last.ret = None) <=> ~Bound(last.pre, last.f, last.name)
        /\ Bound(last.pre, last.f, last.name) =>
              last.ret = Some(last.pre[Nearest(last.pre, last.f, last.name)]
                                  .variables[last.name])

\* A get from a grandchild that finds the name shadowed: the chain binds it
\* twice with different values and neither binder is the frame asked.
C1_Witness ==
    /\ last.op = "get"
    /\ Depth(last.pre, last.f) = 2
    /\ Cardinality(Binders(last.pre, last.f, last.name)) = 2
    /\ 0 \notin Binders(last.pre, last.f, last.name)
    /\ last.pre[1].variables[last.name] # last.ret[1]

\* C2: declare(name, v) on frame f writes only into f: every other frame
\* and every other name of f are unchanged (so a same-named binding of an
\* ancestor keeps its value), f binds name to v afterwards, and the call
\* returns the previous value only if f itself bound name before.
C2_DeclareLocal ==
    last.op = "declare" =>
        /\ Len(frames) = Len(last.pre)
        /\ \A g \in 1..Len(frames) : g # last.f => frames[g] = last.pre[g]
        /\ frames[last.f].parent = last.pre[last.f].parent
        /\ DOMAIN frames[last.f].variables =
              DOMAIN last.pre[last.f].variables \cup {last.name}
        /\ \A k \in DOMAIN last.pre[last.f].variables :
              k # last.name =>
                 frames[last.f].variables[k] = last.pre[last.f].variables[k]
        /\ frames[last.f].variables[last.name] = last.value
        /\ last.ret = IF last.name \in DOMAIN last.pre[last.f].variables
                      THEN Some(last.pre[last.f].variables[last.name])
                      ELSE None

\* A declare on a child whose parent binds the name to another value while
\* the child did not bind it: it returned none and the parent kept its value.
C2_Witness ==
    /\ last.op = "declare"
    /\ last.f # 1
    /\ last.name \notin DOMAIN last.pre[last.f].variables
    /\ last.name \in DOMAIN last.pre[last.pre[last.f].parent].variables
    /\ last.pre[last.pre[last.f].parent].variables[last.name] # last.value
    /\ Len(frames) = 3

\* C3: when the chain of f binds name, set(name, v) on f overwrites the
\* binding in the nearest frame that binds it, returns that binding's
\* previous value and leaves every other frame (a farther ancestor that
\* also binds name included) and every other name unchanged.
C3_SetNearest ==
    (last.op = "set" /\ Bound(last.pre, last.f, last.name)) =>
        LET b == Nearest(last.pre, last.f, last.name) IN
        /\ Len(frames) = Len(last.pre)
        /\ \A g \in 1..Len(frames) : g # b => frames[g] = last.pre[g]
        /\ frames[b].parent = last.pre[b].parent
        /\ DOMAIN frames[b].variables = DOMAIN last.pre[b].variables
        /\ \A k \in DOMAIN frames[b].variables :
              frames[b].variables[k] =
                 IF k = last.name THEN last.value ELSE last.pre[b].variables[k]
        /\ last.ret = Some(last.pre[b].variables[last.name])

\* A set from a grandchild that bubbles up to the parent, which shadows a
\* binding of the root with another value.
C3_Witness ==
    /\ last.op = "set"
    /\ Depth(last.pre, last.f) = 2
    /\ Binders(last.pre, last.f, last.name) = {1, 2}
    /\ last.pre[1].variables[last.name] # last.ret[1]
    /\ last.ret[1] # last.value

\* C4: when no frame of the chain of f binds name, set(name, v) returns
\* none, the assignment statement `name = v` fails with the
\* undefined-variable error, and in both cases the frames are unchanged:
\* no frame gains a binding of name.
C4_SetAbsentFails ==
    (last.op \in {"set", "assign"} /\ ~Bound(last.pre, last.f, last.name)) =>
        /\ last.ret = None
        /\ last.op = "assign" => last.err = <<UndefinedAssign>>
        /\ frames = last.pre
        /\ \A g \in 1..Len(frames) : ~Bound(frames, g, last.name)
              <=> ~Bound(last.pre, g, last.name)

\* An assignment executed on a grandchild frame while a sibling chain binds
\* the name: it failed, and the name is still absent from the chain.
C4_Witness ==
    /\ last.op = "assign"
    /\ last.f # 1
    /\ last.err = <<UndefinedAssign>>
    /\ ~Bound(frames, last.f, last.name)
    /\ \E g \in 1..Len(frames) : Bound(frames, g, last.name)

(***************************************************************************)
(* Spec: run_program on a program drawn from the families below, one       *)
(* top-level statement of execute_statements per step, on the root frame   *)
(* of a new interpreter.  Every family is a test of interpreter/tests.rs   *)
(* with its literals made parameters; `expect` is the output the test      *)
(* asserts, one line per print, as a function of the parameters.           *)
(***************************************************************************)
MaxRec == 3

MaxNest == 2

\* The cells of the heap, the elements of a list and the frames of a REPL
\* session.
MaxCells == 3

MaxLen == 3

MaxScopes == 4

LiveValues == {1, 2}

Id(name) == EIdentifier(name)

CallE(name, args) == ECall(EIdentifier(name), args)

Print1(e) == SPrint(<<e>>)

Program(family, variant, params, statements, expect) ==
    [family |-> family, variant |-> variant, params |-> params,
     statements |-> statements, expect |-> expect]

RECURSIVE SumTo(_)
SumTo(k) == IF k = 0 THEN 0 ELSE k + SumTo(k - 1)

\* A closure made before the bindings it reads are declared or assigned in
\* an ancestor of its captured scope; a closure two frames below the root
\* with a nearer binding of x, followed by a function that calls itself by
\* name (test_recursion, with a sum for the product).
LivePrograms ==
    {Program("live", "declare", <<a, b>>,
        <<SDeclaration("g", EFunction(<<>>, EBlock(<<SReturn(Id("x"))>>))),
          SDeclaration("x", ENumber(a)),
          Print1(CallE("g", <<>>)),
          SAssignment("x", ENumber(b)),
          Print1(CallE("g", <<>>)),
          SDeclaration("x", ENumber(a + b)),
          Print1(CallE("g", <<>>))>>,
        <<IntToString(a), IntToString(b), IntToString(a + b)>>)
     : a \in LiveValues, b \in LiveValues}
    \cup
    {Program("live", "shadow", <<a, b, k>>,
        <<SDeclaration("x", ENumber(a)),
          SDeclaration("h", EFunction(<<>>, EBlock(<<
              SDeclaration("x", ENumber(b)),
              SReturn(EFunction(<<>>, EBlock(<<
                  SReturn(EBinaryOp("Add",
                             EBinaryOp("Mul", Id("x"), ENumber(10)),
                             Id("y")))>>)))>>))),
          SDeclaration("g", CallE("h", <<>>)),
          SAssignment("x", ENumber(a + b)),
          SDeclaration("y", ENumber(a)),
          Print1(CallE("g", <<>>)),
          SAssignment("y", ENumber(b)),
          Print1(CallE("g", <<>>)),
          SDeclaration("f", EFunction(<<"n">>, EBlock(<<
              SIf(EBinaryOp("Eq", Id("n"), ENumber(0)),
                  EBlock(<<SReturn(ENumber(0))>>), None),
              SReturn(EBinaryOp("Add", Id("n"),
                         CallE("f", <<EBinaryOp("Sub", Id("n"), ENumber(1))>>)))
              >>))),
          Print1(CallE("f", <<ENumber(k)>>))>>,
        <<IntToString(b * 10 + a), IntToString(b * 10 + b),
          IntToString(SumTo(k))>>)
     : a \in LiveValues, b \in LiveValues, k \in 0..MaxRec}

BlockValues == {1, 2}

Num(n) == ENumber(n)

\* test_variable_scope, with a second name that only a block declares.
BlockPrograms ==
    {Program("block", "scope", <<a, b, c, d>>,
        <<SDeclaration("x", Num(a)),
          Print1(Id("x")),
          SExpression(EBlock(<<
              Print1(Id("x")),
              SAssignment("x", Num(b)),
              Print1(Id("x"))>>)),
          Print1(Id("x")),
          SExpression(EBlock(<<
              Print1(Id("x")),
              SAssignment("x", Num(c)),
              Print1(Id("x")),
              SDeclaration("x", Num(d)),
              Print1(Id("x")),
              SAssignment("x", Num(d + 10)),
              Print1(Id("x")),
              SExpression(EBlock(<<
                  Print1(Id("x")),
                  SAssignment("x", Num(100)),
                  Print1(Id("x")),
                  SDeclaration("x", Num(6)),
                  Print1(Id("x")),
                  SAssignment("x", Num(7)),
                  Print1(Id("x"))>>)),
              Print1(Id("x")),
              SDeclaration("z", Num(d))>>)),
          Print1(Id("x")),
          Print1(Id("z"))>>,
        <<IntToString(a), IntToString(a), IntToString(b), IntToString(b),
          IntToString(b), IntToString(c), IntToString(d), IntToString(d + 10),
          IntToString(d + 10), "100", "6", "7", "100", IntToString(c)>>)
     : a \in BlockValues, b \in BlockValues, c \in BlockValues,
       d \in BlockValues}

CurryValues == {10, 5}

\* The closures a program may call: 1 for the first made, 2 for the second.
CurryOrders == [1..3 -> {1, 2}]

\* Callers with their own x around a function that reads the x of the place
\* it was written in (after test_functions).
LexicalPrograms ==
    {Program("lexical", "callsite", <<a, b>>,
        <<SDeclaration("x", Num(a)),
          SDeclaration("g", EFunction(<<"p">>, EBlock(<<
              SReturn(EBinaryOp("Add", EBinaryOp("Mul", Id("x"), Num(10)),
                                Id("p")))>>))),
          SDeclaration("caller", EFunction(<<"x">>, EBlock(<<
              SReturn(CallE("g", <<Id("x")>>))>>))),
          Print1(CallE("caller", <<Num(b)>>)),
          SExpression(EBlock(<<
              SDeclaration("x", Num(b)),
              Print1(CallE("g", <<Num(a)>>))>>)),
          SDeclaration("mk", EFunction(<<>>, EBlock(<<
              SDeclaration("x", Num(b)),
              SReturn(EFunction(<<"p">>, EBlock(<<
                  SReturn(EBinaryOp("Add", EBinaryOp("Mul", Id("x"), Num(10)),
                                    Id("p")))>>)))>>))),
          SDeclaration("k", CallE("mk", <<>>)),
          Print1(CallE("k", <<Num(a)>>))>>,
        <<IntToString(a * 10 + b), IntToString(a * 10 + a),
          IntToString(b * 10 + a)>>)
     : a \in LiveValues, b \in LiveValues}

\* test_function_curry, the three calls in every order.
CurryPrograms ==
    {Program("curry", order, <<a1, a2, b>>,
        <<SDeclaration("foo", EFunction(<<"a">>, EBlock(<<
              SReturn(EFunction(<<"b">>, EBlock(<<
                  SReturn(EBinaryOp("Add", Id("a"), Id("b")))>>)))>>))),
          SDeclaration("add1", CallE("foo", <<Num(a1)>>)),
          SDeclaration("add2", CallE("foo", <<Num(a2)>>))>>
        \o [i \in 1..3 |->
               Print1(CallE(IF order[i] = 1 THEN "add1" ELSE "add2", <<Num(b)>>))]
        \o <<Print1(ECall(CallE("foo", <<Num(2)>>), <<Num(40)>>))>>,
        [i \in 1..3 |-> IntToString((IF order[i] = 1 THEN a1 ELSE a2) + b)]
        \o <<"42">>)
     : order \in CurryOrders, a1 \in CurryValues, a2 \in CurryValues,
       b \in {42, 1}}

\* The constructs a `return` may be nested in.
Wrappers == {"block", "if", "else", "elseif", "while", "for", "later"}

Dead == Print1(EString("dead"))

Bump(n) == SAssignment("u", EBinaryOp("Add", Id("u"), Num(n)))

\* The statement that nests `body` in the construct w.  A `while` counts its
\* iterations in u, a `for` adds 10 to u in its update clause, and `later`
\* is the loop of the test: it prints i and gets to `body` in its second
\* iteration.
Wrap(w, body) ==
    CASE w = "block" -> SExpression(EBlock(body))
      [] w = "if" -> SIf(EBoolean(TRUE), EBlock(body), None)
      [] w = "else" -> SIf(EBoolean(FALSE), EBlock(<<Dead>>), Some(EBlock(body)))
      [] w = "elseif" ->
            SIf(EBoolean(FALSE), EBlock(<<Dead>>),
                Some(EBlock(<<SIf(EBoolean(TRUE), EBlock(body),
                                  Some(EBlock(<<Dead>>)))>>)))
      [] w = "while" -> SWhile(EBoolean(TRUE), EBlock(<<Bump(1)>> \o body))
      [] w = "for" ->
            SFor(Some(SDeclaration("i", Num(0))),
                 Some(EBinaryOp("Lt", Id("i"), Num(2))),
                 Some(Bump(10)), EBlock(body))
      [] w = "later" ->
            SFor(Some(SDeclaration("i", Num(0))),
                 Some(EBinaryOp("Lt", Id("i"), Num(3))),
                 Some(SAssignment("i", EBinaryOp("Add", Id("i"), Num(1)))),
                 EBlock(<<Print1(Id("i")),
                          SIf(EBinaryOp("Eq", Id("i"), Num(1)), EBlock(body),
                              None)>>))

\* `return v` under the constructs ws, outermost first, each construct and
\* the return itself followed by a print.
RECURSIVE Nest(_, _)
Nest(ws, v) ==
    IF ws = <<>> THEN <<SReturn(Num(v)), Dead>>
    ELSE <<Wrap(Head(ws), Nest(Tail(ws), v)), Dead>>

\* What the constructs ws print on the way to the return, and how many
\* iterations of `while` they count.
RECURSIVE NestOut(_)
NestOut(ws) ==
    IF ws = <<>> THEN <<>>
    ELSE (IF Head(ws) = "later" THEN <<"0", "1">> ELSE <<>>) \o NestOut(Tail(ws))

RECURSIVE NestCount(_)
NestCount(ws) ==
    IF ws = <<>> THEN 0
    ELSE (IF Head(ws) = "while" THEN 1 ELSE 0) + NestCount(Tail(ws))

\* test_ensure_return_short_circuit, for every nesting of the constructs.
ReturnPrograms ==
    {Program("return", ws, <<v>>,
        <<SDeclaration("u", Num(0)),
          SDeclaration("f", EFunction(<<>>, EBlock(
              <<Print1(EString("in"))>> \o Nest(ws, v)
              \o <<SReturn(Num(99))>>))),
          Print1(CallE("f", <<>>)),
          Print1(Id("u"))>>,
        <<"in">> \o NestOut(ws) \o <<IntToString(v), IntToString(NestCount(ws))>>)
     : ws \in UNION {[1..n -> Wrappers] : n \in 0..MaxNest}, v \in LiveValues}

\* Function bodies that end without executing a `return`.
NoReturnBodies ==
    {<<>>,
     <<Print1(Num(7))>>,
     <<SDeclaration("y", Num(1))>>,
     <<SExpression(Num(1))>>,
     <<SIf(EBoolean(FALSE), EBlock(<<SReturn(Num(1))>>), None)>>,
     <<SFor(Some(SDeclaration("i", Num(0))), Some(EBoolean(FALSE)), None,
            EBlock(<<SReturn(Num(1))>>))>>}

HigherOrder == {"map", "filter", "all", "any"}

\* A direct call of such a function, and such a function as the callback of
\* each higher-order built-in on a list of two elements.
NoReturnPrograms ==
    {Program("noreturn", "call", <<body>>,
        <<SDeclaration("f", EFunction(<<"v">>, EBlock(body))),
          Print1(CallE("f", <<Num(1)>>)),
          Dead>>,
        <<MissingReturn>>)
     : body \in NoReturnBodies}
    \cup
    {Program("noreturn", m, <<body>>,
        <<SDeclaration("l", CallE("list", <<Num(1), Num(2)>>)),
          Print1(ECall(EMember(Id("l"), m),
                       <<EFunction(<<"v">>, EBlock(body))>>)),
          Dead>>,
        <<m \o ": " \o MissingReturn>>)
     : m \in HigherOrder, body \in NoReturnBodies}

\* A failing statement (a read of an undefined variable, an assignment to
\* one, a division by zero) and a print after it, at the top level or inside
\* a block, an if branch, a function body or a loop body, and a print after
\* the construct.
FailFastPrograms ==
    LET Failing == {Print1(Id("z")),
                    SAssignment("z", Num(1)),
                    SExpression(EBinaryOp("Div", Num(1), Num(0)))}
        Places == {"top", "block", "if", "function", "while", "for"}
        once == EBinaryOp("Lt", Id("u"), Num(1))
        at(place, body) ==
            CASE place = "top" -> body
              [] place = "block" -> <<SExpression(EBlock(body))>>
              [] place = "if" -> <<SIf(EBoolean(TRUE), EBlock(body), None)>>
              [] place = "function" ->
                    <<SDeclaration("f", EFunction(<<>>, EBlock(
                          body \o <<SReturn(Num(1))>>))),
                      SExpression(CallE("f", <<>>))>>
              [] place = "while" ->
                    <<SWhile(once, EBlock(<<Bump(1)>> \o body))>>
              [] place = "for" ->
                    <<SFor(None, Some(once), Some(Bump(1)), EBlock(body))>>
    IN {Program("failfast", place, <<bad>>,
            <<SDeclaration("u", Num(0))>> \o at(place, <<bad, Dead>>)
            \o <<Print1(EString("after"))>>,
            <<>>)
        : place \in Places, bad \in Failing}

\* `print(l op r)` followed by a print, for both operators, both values of
\* the left operand, and a right operand that is a call printing "rhs" and
\* returning a boolean, or the failing 1 / 0.  The expected lines are those
\* of an evaluation that reads the right operand only when the left one does
\* not decide the result.
LogicPrograms ==
    LET Rights == {"true", "false", "error"}
        right(r) == IF r = "error" THEN EBinaryOp("Div", Num(1), Num(0))
                    ELSE CallE("f", <<EBoolean(r = "true")>>)
        decided(op, l) == (op = "Or") = l
        name(b) == IF b THEN "true" ELSE "false"
    IN {Program("logic", op, <<l, r>>,
            <<SDeclaration("f", EFunction(<<"b">>, EBlock(
                  <<Print1(EString("rhs")), SReturn(Id("b"))>>))),
              Print1(EBinaryOp(op, EBoolean(l), right(r))),
              Print1(EString("after"))>>,
            IF decided(op, l) THEN <<name(l), "after">>
            ELSE IF r = "error" THEN <<>>
            ELSE <<"rhs", r, "after">>)
        : op \in {"And", "Or"}, l \in BOOLEAN, r \in Rights}

\* test_list_functional, and for every list of up to MaxLen of the elements
\* 1, 2, 3: the list filtered for its even elements, the list mapped to its
\* squares, and the list itself printed after each, and again after a push
\* on each of the two results.
\* "callback": `let l = list(1, 2)`, then `let r = l.m(...)` for m one of
\* map, filter, all, any (prog.variant) and arguments of the shape
\* prog.params[1]: none; the number 5; the built-in list; a closure of no
\* parameter, of one or of two (each prints and returns true); or the
\* closure of one parameter followed by the number 5.
\* "predicate": `let r = l.m(fn(x) { print(x); return x })` for m all or any
\* (prog.variant) and l every list of up to MaxLen of true, false and 0
\* (prog.params, by name).
\* "sum": `let r = l.sum()` for l every list of up to MaxLen of 1, 2, "a",
\* "b", Null, true and a tuple (prog.params, by name).
\* "reentrant": `let l = list(1, 2); let y = l; let o = list(1)`, then
\* `let r = l.m(fn(x) { h.op(..); return true })` for m one of map, filter,
\* all, any (prog.variant), op push or pop and h one of l, y, o
\* (prog.params = <<op, h>>).
FunctionalPrograms ==
    LET even == EFunction(<<"item">>, EBlock(<<SReturn(
                    EBinaryOp("Eq", EBinaryOp("Mod", Id("item"), Num(2)), Num(0)))>>))
        square == EFunction(<<"item">>, EBlock(<<SReturn(
                      EBinaryOp("Mul", Id("item"), Id("item")))>>))
        Method(target, m, args) == ECall(EMember(target, m), args)
        numbers(ns) == [j \in 1..Len(ns) |-> Num(ns[j])]
        evens(ns) == SelectSeq(ns, LAMBDA n : n % 2 = 0)
        squares(ns) == [j \in 1..Len(ns) |-> ns[j] * ns[j]]
        show(ns) == "list(" \o Join([j \in 1..Len(ns) |-> IntToString(ns[j])], ", ") \o ")"
        says(ps) == EFunction(ps, EBlock(
                        <<Print1(IF ps = <<>> THEN EString("body") ELSE Id(ps[1])),
                          SReturn(EBoolean(TRUE))>>))
        Shapes == {"none", "number", "builtin", "nullary", "unary", "binary", "extra"}
        given(shape) ==
            CASE shape = "none" -> <<>>
              [] shape = "number" -> <<Num(5)>>
              [] shape = "builtin" -> <<Id("list")>>
              [] shape = "nullary" -> <<says(<<>>)>>
              [] shape = "unary" -> <<says(<<"a">>)>>
              [] shape = "binary" -> <<says(<<"a", "b">>)>>
              [] shape = "extra" -> <<says(<<"a">>), Num(5)>>
        Element == [true |-> EBoolean(TRUE), false |-> EBoolean(FALSE), zero |-> Num(0)]
        itself == EFunction(<<"x">>, EBlock(<<Print1(Id("x")), SReturn(Id("x"))>>))
        Summand == [one |-> Num(1), two |-> Num(2), a |-> EString("a"),
                    b |-> EString("b"),
                    null |-> Method(CallE("set", <<>>), "add", <<Num(0)>>),
                    true |-> EBoolean(TRUE), tuple |-> ETuple(<<>>)]
        mutates(op, h) ==
            EFunction(<<"x">>, EBlock(
                <<SExpression(Method(Id(h), op, IF op = "push" THEN <<Num(0)>> ELSE <<>>)),
                  SReturn(EBoolean(TRUE))>>))
    IN {Program("reentrant", m, <<op, h>>,
            <<SDeclaration("l", CallE("list", <<Num(1), Num(2)>>)),
              SDeclaration("y", Id("l")),
              SDeclaration("o", CallE("list", <<Num(1)>>)),
              SDeclaration("r", Method(Id("l"), m, <<mutates(op, h)>>)),
              Print1(EString("after"))>>, <<>>)
        : m \in {"map", "filter", "all", "any"}, op \in {"push", "pop"},
          h \in {"l", "y", "o"}}
       \cup
       {Program("sum", "list", es,
            <<SDeclaration("l", CallE("list", [j \in 1..Len(es) |-> Summand[es[j]]])),
              SDeclaration("r", Method(Id("l"), "sum", <<>>)),
              Print1(EString("after"))>>, <<>>)
        : es \in UNION {[1..n -> DOMAIN Summand] : n \in 0..MaxLen}}
       \cup
       {Program("predicate", m, es,
            <<SDeclaration("l", CallE("list", [j \in 1..Len(es) |-> Element[es[j]]])),
              SDeclaration("r", Method(Id("l"), m, <<itself>>)),
              Print1(EString("after"))>>, <<>>)
        : m \in {"all", "any"},
          es \in UNION {[1..n -> {"true", "false", "zero"}] : n \in 0..MaxLen}}
       \cup
       {Program("callback", m, <<shape>>,
            <<SDeclaration("l", CallE("list", <<Num(1), Num(2)>>)),
              SDeclaration("r", Method(Id("l"), m, given(shape))),
              Print1(EString("after"))>>, <<>>)
        : m \in {"map", "filter", "all", "any"}, shape \in Shapes}
       \cup
       {Program("functional", "test", <<ns>>,
            <<SDeclaration("result",
                  Method(Method(CallE("list", numbers(ns)), "filter", <<even>>),
                         "map", <<square>>)),
              Print1(Id("result"))>>,
            <<show(squares(evens(ns)))>>)
        : ns \in {<<1, 2, 3, 4, 5, 6, 7, 8>>}}
       \cup
       {Program("functional", "elements", <<ns>>,
            <<SDeclaration("l", CallE("list", numbers(ns))),
              SDeclaration("e", Method(Id("l"), "filter", <<even>>)),
              SPrint(<<Id("e"), Id("l")>>),
              SDeclaration("m", Method(Id("l"), "map", <<square>>)),
              SPrint(<<Id("m"), Id("l")>>),
              SExpression(Method(Id("e"), "push", <<Num(0)>>)),
              SExpression(Method(Id("m"), "push", <<Num(0)>>)),
              SPrint(<<Id("e"), Id("m"), Id("l")>>)>>,
            <<show(evens(ns)) \o " " \o show(ns),
              show(squares(ns)) \o " " \o show(ns),
              show(evens(ns) \o <<0>>) \o " " \o show(squares(ns) \o <<0>>) \o " "
                  \o show(ns)>>)
        : ns \in UNION {[1..n -> 1..3] : n \in 0..MaxLen}}

(***************************************************************************)
(* The expression parser (ast/parser.rs).  The grammar hands it the pairs  *)
(* of an `expr` node in source order: prefix operators, a primary, postfix *)
(* operators, and then any number of times an infix operator followed by   *)
(* the same.  A pair is [rule, text, inner]: its rule, the text it matched *)
(* and its child pairs.                                                    *)
(***************************************************************************)
\* A table in which ^ associates to the left.
PRATT_PARSER_left ==
    LET Op(rule, affix, assoc) == [rule |-> rule, affix |-> affix, assoc |-> assoc]
    IN <<{Op("logical_or", "infix", "Left")},
         {Op("logical_and", "infix", "Left")},
         {Op("eq", "infix", "Left"), Op("ne", "infix", "Left")},
         {Op("le", "infix", "Left"), Op("ge", "infix", "Left"),
          Op("lt", "infix", "Left"), Op("gt", "infix", "Left")},
         {Op("add", "infix", "Left"), Op("subtract", "infix", "Left")},
         {Op("multiply", "infix", "Left"), Op("divide", "infix", "Left"),
          Op("modulo", "infix", "Left")},
         {Op("power", "infix", "Left")},
         {Op("logical_not", "prefix", "None"), Op("unary_minus", "prefix", "None")},
         {Op("member_access", "postfix", "None"), Op("call_suffix", "postfix", "None")}>>

\* PRATT_PARSER: the groups of operators given to PrattParser::op, the
\* lowest precedence first.
PRATT_PARSER ==
    LET Op(rule, affix, assoc) == [rule |-> rule, affix |-> affix, assoc |-> assoc]
    IN <<{Op("logical_or", "infix", "Left")},
         {Op("logical_and", "infix", "Left")},
         {Op("eq", "infix", "Left"), Op("ne", "infix", "Left")},
         {Op("le", "infix", "Left"), Op("ge", "infix", "Left"),
          Op("lt", "infix", "Left"), Op("gt", "infix", "Left")},
         {Op("add", "infix", "Left"), Op("subtract", "infix", "Left")},
         {Op("multiply", "infix", "Left"), Op("divide", "infix", "Left"),
          Op("modulo", "infix", "Left")},
         {Op("power", "infix", "Right")},
         {Op("logical_not", "prefix", "None"), Op("unary_minus", "prefix", "None")},
         {Op("member_access", "postfix", "None"), Op("call_suffix", "postfix", "None")}>>

\* parse_exprs: PrattParser::parse over the pairs, with parse_expr for the
\* primaries and the infix, prefix and postfix maps.  `expr` is the parser's
\* loop: the operand (a prefix operator applied to what follows it, parsed
\* above the operator's precedence less one, or a primary), then every
\* operator whose precedence exceeds rbp: an infix operator takes as right
\* operand what is parsed above its own precedence (above its precedence
\* less one when it associates to the right), a postfix operator applies to
\* what was parsed so far.  A precedence is 10 times the group's position.
\* expr yields the expression and the pairs left.  (The pairs are taken to
\* be well formed and a number to fit an i32.)
parse_exprs(pairs) ==
    LET op(rule) ==
            CHOOSE o \in UNION {PRATT_PARSER[i] : i \in DOMAIN PRATT_PARSER} :
                o.rule = rule
        prec(rule) ==
            10 * (CHOOSE i \in DOMAIN PRATT_PARSER : op(rule) \in PRATT_PARSER[i])
        is_op(rule) ==
            \E i \in DOMAIN PRATT_PARSER : \E o \in PRATT_PARSER[i] : o.rule = rule
        bin_op == [add |-> "Add", subtract |-> "Sub", multiply |-> "Mul",
                   divide |-> "Div", modulo |-> "Mod", power |-> "Pow",
                   eq |-> "Eq", ne |-> "Ne", le |-> "Le", ge |-> "Ge",
                   lt |-> "Lt", gt |-> "Gt",
                   logical_and |-> "And", logical_or |-> "Or"]
        un_op == [unary_minus |-> "Neg", logical_not |-> "Not"]
        digit(c) == CHOOSE d \in 0..9 : ToString(d) = c
        RECURSIVE number(_, _)
        number(text, n) ==
            IF text = "" THEN n ELSE number(Tail(text), 10 * n + digit(Head(text)))
        RECURSIVE expr(_, _, _)
        parse_expr(primary) ==
            CASE primary.rule = "number" -> ENumber(number(primary.text, 0))
              [] primary.rule = "boolean" -> EBoolean(primary.text = "true")
              [] primary.rule = "string" ->
                    EString(SubSeq(primary.text, 2, Len(primary.text) - 1))
              [] primary.rule = "identifier" -> EIdentifier(primary.text)
              [] primary.rule = "expr" -> expr(primary.inner, 0, None).e
        postfix(lhs, pair) ==
            IF pair.rule = "call_suffix"
            THEN ECall(lhs, [i \in 1..Len(pair.inner) |-> parse_expr(pair.inner[i])])
            ELSE EMember(lhs, pair.inner[1].text)
        expr(ps, rbp, lhs) ==
            IF lhs = None
            THEN IF is_op(Head(ps).rule)
                 THEN LET rhs == expr(Tail(ps), prec(Head(ps).rule) - 1, None) IN
                      expr(rhs.rest, rbp, Some(EUnaryOp(un_op[Head(ps).rule], rhs.e)))
                 ELSE expr(Tail(ps), rbp, Some(parse_expr(Head(ps))))
            ELSE IF ps = <<>> \/ rbp >= prec(Head(ps).rule)
            THEN [e |-> lhs[1], rest |-> ps]
            ELSE IF op(Head(ps).rule).affix = "postfix"
            THEN expr(Tail(ps), rbp, Some(postfix(lhs[1], Head(ps))))
            ELSE LET o == Head(ps).rule
                     rhs == expr(Tail(ps),
                                 IF op(o).assoc = "Left" THEN prec(o) ELSE prec(o) - 1,
                                 None)
                 IN expr(rhs.rest, rbp, Some(EBinaryOp(bin_op[o], lhs[1], rhs.e)))
    IN expr(pairs, 0, None).e

\* parse_statement, Rule::for_stmt: the parts of the statement in their
\* order.  The first assignment or declaration met is the init and one met
\* after it the update, an expr is the condition and a block the body.  (A
\* part is taken with its statement or block already parsed; the condition
\* is parsed from its pairs.)
parse_statement(pair) ==
    LET RECURSIVE parts(_, _)
        parts(inner, for) ==
            IF inner = <<>> THEN for
            ELSE LET part == Head(inner) IN
                 parts(Tail(inner),
                       CASE part.rule \in {"assignment", "declaration"} ->
                               IF for.init = None
                               THEN [for EXCEPT !.init = Some(part.parsed)]
                               ELSE [for EXCEPT !.update = Some(part.parsed)]
                         [] part.rule = "expr" ->
                               [for EXCEPT !.condition = Some(parse_exprs(part.inner))]
                         [] part.rule = "block" ->
                               [for EXCEPT !.body = part.parsed])
    IN parts(pair.inner, SFor(None, None, None, None))

\* `let r = a op b` for every binary operator but && and ||, and the
\* identity `let r = a / b * b + a % b`.  The operands are integers (the
\* least i32 among them, written -2147483647 - 1), and one value of every
\* other kind against each other and against an integer.  prog.params is
\* the pair of operand values (a compound or function operand by its type
\* alone); the sum, difference, product or power of some integer pairs
\* leaves 32 bits.
\* And ("grouping") `let r = e` for the expression e parsed from the pairs
\* of: 2 a 3 b 2 for all infix operators a and b ("chain"); a 2 b 3 and
\* 2 a b 3 for a prefix and an infix operator ("prefix", "operand");
\* a f(3) b l.length() ("postfix"); and the expressions of test_operators,
\* printed ("test").  prog.params is the operators' rules (for a test, the
\* line expected).
OperatorPrograms ==
    LET Ints == {I32Min, -12, -7, -6, -1, 0, 2, 3, 6, 10}
        Others == {Boolean(TRUE), Boolean(FALSE), String(""), String("a"),
                   String("ab"), String("b"), Null,
                   [t |-> "List", v |-> 0], [t |-> "Tuple", v |-> 0],
                   [t |-> "Function", v |-> 0]}
        Pairs == {<<Int32(a), Int32(b)>> : a \in Ints, b \in Ints}
                 \cup ((Others \cup {Int32(2)}) \X (Others \cup {Int32(2)}))
        Ops == {"Add", "Sub", "Mul", "Div", "Mod", "Pow",
                "Eq", "Ne", "Lt", "Le", "Gt", "Ge", "Identity"}
        lit(x) ==
            CASE x.t = "Int32" ->
                    IF x.v = I32Min
                    THEN EBinaryOp("Sub", EUnaryOp("Neg", Num(I32Max)), Num(1))
                    ELSE IF x.v < 0 THEN EUnaryOp("Neg", Num(-x.v)) ELSE Num(x.v)
              [] x.t = "Boolean" -> EBoolean(x.v)
              [] x.t = "String" -> EString(x.v)
              [] x.t = "Null" ->
                    ECall(EMember(CallE("set", <<>>), "add"), <<Num(0)>>)
              [] x.t = "List" -> CallE("list", <<Num(1)>>)
              [] x.t = "Tuple" -> ETuple(<<Num(1), Num(2)>>)
              [] x.t = "Function" -> EFunction(<<>>, EBlock(<<SReturn(Num(1))>>))
        ints(p) == p[1].t = "Int32" /\ p[2].t = "Int32"
        fits(op, p) ==
            \/ ~ints(p)
            \/ op \in {"Div", "Mod", "Eq", "Ne", "Lt", "Le", "Gt", "Ge"}
            \/ /\ op = "Identity"
               /\ p[2].v # 0
            \/ op \in {"Add", "Sub", "Mul", "Pow"}
        expr(op, p) ==
            IF op = "Identity"
            THEN EBinaryOp("Add",
                     EBinaryOp("Mul", EBinaryOp("Div", lit(p[1]), lit(p[2])), lit(p[2])),
                     EBinaryOp("Mod", lit(p[1]), lit(p[2])))
            ELSE EBinaryOp(op, lit(p[1]), lit(p[2]))
        \* The pairs of an expression, as the grammar hands them over.
        P(rule, text) == [rule |-> rule, text |-> text, inner |-> <<>>]
        N(n) == P("number", ToString(n))
        Text == [logical_or |-> "||", logical_and |-> "&&", eq |-> "==",
                 ne |-> "!=", le |-> "<=", ge |-> ">=", lt |-> "<", gt |-> ">",
                 add |-> "+", subtract |-> "-", multiply |-> "*",
                 divide |-> "/", modulo |-> "%", power |-> "^",
                 unary_minus |-> "-", logical_not |-> "!"]
        O(rule) == P(rule, Text[rule])
        Infix == DOMAIN Text \ {"unary_minus", "logical_not"}
        Prefix == {"unary_minus", "logical_not"}
        paren(ps) == [rule |-> "expr", text |-> "(..)", inner |-> ps]
        call(ps) == [rule |-> "call_suffix", text |-> "(..)",
                     inner |-> [i \in 1..Len(ps) |-> paren(<<ps[i]>>)]]
        dot(name) == [rule |-> "member_access", text |-> "." \o name,
                      inner |-> <<P("identifier", name)>>]
        \* The expressions of test_operators that have more than one
        \* operator, with the line each prints.
        Tests ==
            {<<<<N(1), O("add"), N(2), O("multiply"), N(4)>>, "9">>,
             <<<<paren(<<N(1), O("add"), N(2)>>), O("multiply"), N(4)>>, "12">>,
             <<<<O("unary_minus"), N(42), O("subtract"), N(2)>>, "-44">>,
             <<<<O("unary_minus"), N(12), O("divide"), O("unary_minus"), N(6)>>, "2">>,
             <<<<O("unary_minus"), N(12), O("divide"), N(6)>>, "-2">>,
             <<<<O("unary_minus"),
                 paren(<<N(12), O("divide"), N(6), O("add"), N(3)>>)>>, "-5">>,
             <<<<N(3), O("multiply"), N(2), O("multiply"), N(5), O("multiply"),
                 N(10)>>, "300">>,
             <<<<paren(<<N(1), O("multiply"), N(2)>>), O("add"),
                 paren(<<N(3), O("multiply"), N(4)>>)>>, "14">>}
        declare_r(ps) == <<SDeclaration("r", parse_exprs(ps))>>
    IN UNION {{Program("operator", op, p, <<SDeclaration("r", expr(op, p))>>, <<>>)
               : p \in {q \in Pairs : fits(op, q)}}
              : op \in Ops}
       \cup
       {Program("grouping", "chain", <<a, b>>,
                declare_r(<<N(2), O(a), N(3), O(b), N(2)>>), <<>>)
        : a \in Infix, b \in Infix}
       \cup
       {Program("grouping", "prefix", <<a, b>>,
                declare_r(<<O(a), N(2), O(b), N(3)>>), <<>>)
        : a \in Prefix, b \in Infix}
       \cup
       {Program("grouping", "operand", <<a, b>>,
                declare_r(<<N(2), O(a), O(b), N(3)>>), <<>>)
        : a \in Infix, b \in Prefix}
       \cup
       {Program("grouping", "postfix", <<a, b>>,
                declare_r(<<O(a), P("identifier", "f"), call(<<N(3)>>), O(b),
                            P("identifier", "l"), dot("length"), call(<<>>)>>), <<>>)
        : a \in Prefix, b \in Infix}
       \cup
       {Program("grouping", "test", <<t[2]>>, <<Print1(parse_exprs(t[1]))>>, <<t[2]>>)
        : t \in Tests}

\* Programs with one statement under test, after
\*     let u = 0;  let l = list()
\*     let g = fn(v) { l.push(v); print(v); return v }
\*     let f = fn(a, b) { u = 1; print("body"); return 0 }   (0 to 2 parameters)
\* and before print("after").  The statement is a call of f ("arity", made
\* after `let a = 7`) or a print ("print") with up to three arguments, each
\* the literal of its position, the call of g on it, the undefined z or (in
\* a call) the caller's a; prog.params is the arguments' kinds and
\* prog.variant the number of f's parameters.  Or it
\* is a construct that needs a boolean ("strict": !, an operand of && or ||
\* that is evaluated or skipped, the condition of if, while or for, the
\* value returned by the callback of filter, all or any), given a value
\* that is or is not one; prog.variant is the place and prog.params the
\* value.
ErrorPrograms ==
    LET Kinds == {"lit", "call", "bad"}
        Args(K) == UNION {[1..n -> K] : n \in 0..3}
        arg(kinds, i) == CASE kinds[i] = "lit" -> Num(i)
                           [] kinds[i] = "call" -> CallE("g", <<Num(i)>>)
                           [] kinds[i] = "bad" -> Id("z")
                           [] kinds[i] = "name" -> Id("a")
        args(kinds) == [i \in 1..Len(kinds) |-> arg(kinds, i)]
        Method(target, m, as) == ECall(EMember(target, m), as)
        prelude(n) ==
            <<SDeclaration("u", Num(0)),
              SDeclaration("l", CallE("list", <<>>)),
              SDeclaration("g", EFunction(<<"v">>, EBlock(
                  <<SExpression(Method(Id("l"), "push", <<Id("v")>>)),
                    Print1(Id("v")),
                    SReturn(Id("v"))>>))),
              SDeclaration("f", EFunction(SubSeq(<<"a", "b">>, 1, n), EBlock(
                  <<SAssignment("u", Num(1)),
                    Print1(EString("body")),
                    SReturn(Num(0))>>)))>>
        after == <<Print1(EString("after"))>>
        \* The places that need a boolean, and the values put there.
        Places == {"not", "and_left", "and_right", "and_skipped", "or_left",
                   "or_right", "or_skipped", "if", "while", "for",
                   "filter", "all", "any"}
        Values == {"zero", "one", "empty", "text", "null", "list", "tuple",
                   "true", "false"}
        value(v) ==
            CASE v = "zero" -> Num(0)
              [] v = "one" -> Num(1)
              [] v = "empty" -> EString("")
              [] v = "text" -> EString("true")
              [] v = "null" -> Method(CallE("set", <<>>), "add", <<Num(0)>>)
              [] v = "list" -> CallE("list", <<>>)
              [] v = "tuple" -> ETuple(<<>>)
              [] v \in {"true", "false"} -> EBoolean(v = "true")
        say(text) == EBlock(<<Print1(EString(text))>>)
        needs(place, e) ==
            CASE place = "not" -> Print1(EUnaryOp("Not", e))
              [] place = "and_left" -> Print1(EBinaryOp("And", e, EBoolean(TRUE)))
              [] place = "and_right" -> Print1(EBinaryOp("And", EBoolean(TRUE), e))
              [] place = "and_skipped" -> Print1(EBinaryOp("And", EBoolean(FALSE), e))
              [] place = "or_left" -> Print1(EBinaryOp("Or", e, EBoolean(FALSE)))
              [] place = "or_right" -> Print1(EBinaryOp("Or", EBoolean(FALSE), e))
              [] place = "or_skipped" -> Print1(EBinaryOp("Or", EBoolean(TRUE), e))
              [] place = "if" -> SIf(e, say("then"), Some(say("else")))
              [] place = "while" -> SWhile(e, say("body"))
              [] place = "for" -> SFor(None, Some(e), None, say("body"))
              [] place \in {"filter", "all", "any"} ->
                    Print1(Method(CallE("list", <<Num(1)>>), place,
                                  <<EFunction(<<"x">>, EBlock(<<SReturn(e)>>))>>))
    IN {Program("strict", place, <<v>>,
                prelude(2) \o <<needs(place, value(v))>> \o after, <<>>)
        : place \in Places, v \in Values}
       \cup
       {Program("arity", n, kinds,
                prelude(n) \o <<SDeclaration("a", Num(7)),
                                SExpression(CallE("f", args(kinds)))>> \o after, <<>>)
        : n \in 0..2, kinds \in Args(Kinds \cup {"name"})}
       \cup
       {Program("print", 2, kinds,
                prelude(2) \o <<SPrint(args(kinds))>> \o after, <<>>)
        : kinds \in Args(Kinds)}

\* Programs about what statements and blocks yield.  "signal": a block that
\* executes `return 1`, used as an expression: the value of a declaration or
\* of an assignment, an argument of a closure or of list(), an element of a
\* tuple, an operand of ==; prog.variant is the place.
\* "for": after `let i = 0`, the loop `for (i = 1; i < 3; i = i + 1)
\* { print(i) }` written with any of its three clauses left out; without
\* the update the body ends with `i = i + 1`, and without the condition it
\* begins with `if (3 <= i) { return 0 }`.  prog.params tells the clauses
\* written (<<init, condition, update>>, "yes" or "no").
\* "member": `let x = v; let m = x.field; let y = x; x = w` for v a value
\* of every kind (prog.variant), w a new value of that kind, and field
\* (prog.params[1]) every member name of the three tables and `size`; for
\* push, add and set a call of m follows.
\* "toplevel": `print("next")` before each of a sequence of top-level
\* statements that yield a return-signal (prog.variant names them: a
\* `return 1`, or an if, else, while, for or block whose body is
\* `{ print("in"); return 1; print("never") }`), and `print("end")` after
\* the last; prog.params[k] is the lines statement k prints.
\* "loopscope": loops of two iterations and a print after them.
\* "replace": `let i = 7; for (let i = 0; i < 2; i = i + 1) { print(i) }
\* print(i)`; "fresh": the same without the first declaration; "while" and
\* "for": after `let t = 0`, a loop whose condition and update read t and
\* whose body is `{ print(t); let t = 5; print(t) }`, then `print(t)`;
\* "unbound-while" and "unbound-for": the body declares u, and `print(u)`
\* follows the loop.  prog.expect is the lines printed.
ControlPrograms ==
    LET ret == EBlock(<<SReturn(Num(1))>>)
        Part(rule, parsed, inner) == [rule |-> rule, parsed |-> parsed, inner |-> inner]
        Tok(rule, text) == [rule |-> rule, text |-> text, inner |-> <<>>]
        step == SAssignment("i", EBinaryOp("Add", Id("i"), Num(1)))
        guard == SIf(EBinaryOp("Le", Num(3), Id("i")), EBlock(<<SReturn(Num(0))>>), None)
        body(w) == EBlock((IF w[2] = "no" THEN <<guard>> ELSE <<>>)
                          \o <<Print1(Id("i"))>>
                          \o (IF w[3] = "no" THEN <<step>> ELSE <<>>))
        loop(w) ==
            [rule |-> "for_stmt",
             inner |->
                (IF w[1] = "yes"
                 THEN <<Part("assignment", SAssignment("i", Num(1)), <<>>)>> ELSE <<>>)
                \o (IF w[2] = "yes"
                    THEN <<Part("expr", None, <<Tok("identifier", "i"), Tok("lt", "<"),
                                                Tok("number", "3")>>)>>
                    ELSE <<>>)
                \o (IF w[3] = "yes" THEN <<Part("assignment", step, <<>>)>> ELSE <<>>)
                \o <<Part("block", body(w), <<>>)>>]
        Written == [1..3 -> {"yes", "no"}]
        Method(target, m, args) == ECall(EMember(target, m), args)
        Fields == {"join", "length", "at", "pop", "push", "map", "filter", "all",
                   "any", "sum", "has", "union", "intersection", "difference",
                   "add", "remove", "get", "set", "items", "keys", "values", "size"}
        Kinds == {"list", "set", "dict", "null", "int", "bool", "string", "tuple",
                  "function", "builtin"}
        value(kind, n) ==
            CASE kind = "list" -> CallE("list", <<Num(n)>>)
              [] kind = "set" -> CallE("set", <<Num(n)>>)
              [] kind = "dict" -> CallE("dict", <<ETuple(<<Num(n), Num(n)>>)>>)
              [] kind = "null" -> Method(CallE("set", <<>>), "add", <<Num(n)>>)
              [] kind = "int" -> Num(n)
              [] kind = "bool" -> EBoolean(n = 1)
              [] kind = "string" -> EString(IF n = 1 THEN "a" ELSE "b")
              [] kind = "tuple" -> ETuple(<<Num(n)>>)
              [] kind = "function" -> EFunction(<<>>, EBlock(<<SReturn(Num(n))>>))
              [] kind = "builtin" -> Id(IF n = 1 THEN "list" ELSE "set")
        put(field) == IF field = "set" THEN <<Num(7), Num(7)>> ELSE <<Num(7)>>
        Places == {"declaration", "assignment", "argument", "list", "tuple",
                   "operand"}
        inside == EBlock(<<Print1(EString("in")), SReturn(Num(1)),
                           Print1(EString("never"))>>)
        signal(kind) ==
            CASE kind = "return" -> SReturn(Num(1))
              [] kind = "if" -> SIf(EBoolean(TRUE), inside, None)
              [] kind = "else" -> SIf(EBoolean(FALSE), EBlock(<<>>), Some(inside))
              [] kind = "while" -> SWhile(EBoolean(TRUE), inside)
              [] kind = "for" -> SFor(None, None, None, inside)
              [] kind = "block" -> SExpression(inside)
        Signals == {<<k>> : k \in {"return", "if", "else", "while", "for", "block"}}
                   \cup {<<"return", "return">>, <<"block", "for">>,
                         <<"return", "if", "else", "while", "for", "block">>}
        RECURSIVE Top(_), Lines(_)
        Top(kinds) ==
            IF kinds = <<>> THEN <<Print1(EString("end"))>>
            ELSE <<Print1(EString("next")), signal(Head(kinds))>> \o Top(Tail(kinds))
        Lines(kinds) ==
            IF kinds = <<>> THEN <<<<"end">>>>
            ELSE <<<<"next">>, IF Head(kinds) = "return" THEN <<>> ELSE <<"in">>>>
                 \o Lines(Tail(kinds))
        Loops == {"replace", "fresh", "while", "for", "unbound-while", "unbound-for"}
        less(e, n) == EBinaryOp("Lt", e, Num(n))
        bump(name) == SAssignment(name, EBinaryOp("Add", Id(name), Num(1)))
        counted(name, blk) ==
            SFor(Some(SDeclaration(name, Num(0))), Some(less(Id(name), 2)),
                 Some(bump(name)), blk)
        shadow == <<Print1(Id("t")), SDeclaration("t", Num(5)), Print1(Id("t"))>>
        Scoped(v) ==
            CASE v = "replace" ->
                    <<SDeclaration("i", Num(7)),
                      counted("i", EBlock(<<Print1(Id("i"))>>)), Print1(Id("i"))>>
              [] v = "fresh" ->
                    <<counted("j", EBlock(<<Print1(Id("j"))>>)), Print1(Id("j"))>>
              [] v = "while" ->
                    <<SDeclaration("t", Num(0)), SDeclaration("i", Num(0)),
                      SWhile(less(EBinaryOp("Add", Id("t"), Id("i")), 2),
                             EBlock(shadow \o <<bump("i")>>)),
                      Print1(Id("t"))>>
              [] v = "for" ->
                    <<SDeclaration("t", Num(0)),
                      SFor(Some(SDeclaration("i", Num(0))),
                           Some(less(EBinaryOp("Add", Id("t"), Id("i")), 2)),
                           Some(SAssignment("i", EBinaryOp("Add", EBinaryOp("Add",
                                    Id("i"), Id("t")), Num(1)))),
                           EBlock(shadow)),
                      Print1(Id("t"))>>
              [] v = "unbound-while" ->
                    <<SDeclaration("i", Num(0)),
                      SWhile(less(Id("i"), 2),
                             EBlock(<<SDeclaration("u", Id("i")), Print1(Id("u")),
                                      bump("i")>>)),
                      Print1(Id("u"))>>
              [] v = "unbound-for" ->
                    <<counted("i", EBlock(<<SDeclaration("u", Id("i")),
                                            Print1(Id("u"))>>)),
                      Print1(Id("u"))>>
        Heard(v) ==
            CASE v = "replace" -> <<"0", "1", "2">>
              [] v = "fresh" -> <<"0", "1", "2">>
              [] v \in {"while", "for"} -> <<"0", "5", "0", "5", "0">>
              [] OTHER -> <<"0", "1">>
        use(place) ==
            CASE place = "declaration" -> <<SDeclaration("y", ret)>>
              [] place = "assignment" ->
                    <<SDeclaration("y", Num(0)), SAssignment("y", ret)>>
              [] place = "argument" ->
                    <<SDeclaration("f", EFunction(<<"a">>, EBlock(
                          <<Print1(Id("a")), SReturn(Num(0))>>))),
                      SExpression(CallE("f", <<ret>>))>>
              [] place = "list" -> <<SDeclaration("y", CallE("list", <<ret>>))>>
              [] place = "tuple" -> <<SDeclaration("y", ETuple(<<ret, Num(2)>>))>>
              [] place = "operand" -> <<SDeclaration("y", EBinaryOp("Eq", ret, ret))>>
    IN {Program("signal", place, <<>>, use(place) \o <<Print1(EString("after"))>>, <<>>)
        : place \in Places}
       \cup
       {Program("member", kind, <<field>>,
                <<SDeclaration("x", value(kind, 1)),
                  SDeclaration("m", EMember(Id("x"), field)),
                  SDeclaration("y", Id("x")),
                  SAssignment("x", value(kind, 2))>>
                \o (IF field \in {"push", "add", "set"}
                    THEN <<SExpression(CallE("m", put(field)))>> ELSE <<>>)
                \o <<Print1(EString("after"))>>, <<>>)
        : kind \in Kinds, field \in Fields}
       \cup
       {Program("toplevel", kinds, Lines(kinds), Top(kinds), <<>>)
        : kinds \in Signals}
       \cup
       {Program("loopscope", v, <<>>, Scoped(v), Heard(v)) : v \in Loops}
       \cup
       {Program("for", "clauses", w,
                <<SDeclaration("i", Num(0)), parse_statement(loop(w)),
                  Print1(EString("after"))>>, <<>>)
        : w \in Written}

Programs ==
    ControlPrograms \cup LivePrograms \cup BlockPrograms \cup LexicalPrograms \cup CurryPrograms
    \cup ReturnPrograms \cup NoReturnPrograms \cup FailFastPrograms
    \cup LogicPrograms \cup FunctionalPrograms \cup OperatorPrograms
    \cup ErrorPrograms

Init ==
    /\ prog \in Programs
    /\ build \in Builds
    /\ frames = new
    /\ lists = <<>>
    /\ out = <<>>
    /\ calls = <<>>
    /\ last = NoCall
    /\ pc = 1
    /\ result = Running

\* A statement loop that a return-signal ends, as the loop of a block does.
Execute_until_return ==
    /\ result = Running
    /\ pc <= Len(prog.statements)
    /\ LET continue(r) ==
              /\ r.tag = "Ok"
              /\ frames' = r.st.frames
              /\ lists' = r.st.lists
              /\ out' = r.st.out
              /\ calls' = r.st.calls
              /\ pc' = IF r.val.t = "Return" THEN Len(prog.statements) + 1 ELSE pc + 1
       IN continue(execute_statement(prog.statements[pc], 1, State))
    /\ UNCHANGED <<build, last, prog, result>>

\* execute_statements: the next statement returned Ok; its value is dropped.
Execute ==
    /\ result = Running
    /\ pc <= Len(prog.statements)
    /\ LET continue(r) ==
              /\ r.tag = "Ok"
              /\ frames' = r.st.frames
              /\ lists' = r.st.lists
              /\ out' = r.st.out
              /\ calls' = r.st.calls
       IN continue(execute_statement(prog.statements[pc], 1, State))
    /\ pc' = pc + 1
    /\ UNCHANGED <<build, last, prog, result>>

\* execute_statements: `?` on a statement that failed ends run_program.
Fail ==
    /\ result = Running
    /\ pc <= Len(prog.statements)
    /\ LET abort(r) ==
              /\ r.tag # "Ok"
              /\ frames' = r.st.frames
              /\ lists' = r.st.lists
              /\ out' = r.st.out
              /\ calls' = r.st.calls
              /\ result' = [tag |-> r.tag, val |-> r.val]
       IN abort(execute_statement(prog.statements[pc], 1, State))
    /\ UNCHANGED <<build, last, prog, pc>>

\* execute_statements: Ok(Value::Null) after the last statement.
Finish ==
    /\ result = Running
    /\ pc > Len(prog.statements)
    /\ result' = [tag |-> "Ok", val |-> Null]
    /\ UNCHANGED <<frames, lists, out, calls, build, last, prog, pc>>

Next == Execute \/ Fail \/ Finish

Spec == Init /\ [][Next]_vars

Done == result # Running

IsPrefix(s, t) == Len(s) <= Len(t) /\ s = SubSeq(t, 1, Len(s))

\* The program ran to its end without an error.
RanToEnd == result = [tag |-> "Ok", val |-> Null]

\* C5: environments are live.  A closure's captured scope is a frame made
\* before the root's later declare / set of x and y; every call of the
\* closure after such a write reads the written value, except for a name the
\* closure's own chain binds nearer (x in the shadow variant), and a function
\* bound by `let f = fn(n) {...}` calls itself by name: each program prints
\* exactly the expected lines and run_program ends without an error.
C5_LiveEnvironment ==
    prog.family = "live" =>
        /\ IsPrefix(out, prog.expect)
        /\ Done => (RanToEnd /\ out = prog.expect)

\* The shadow variant ran to its end: the root's x and y were written after
\* the closure was made, the closure's chain shadows x with another value,
\* and the recursion went to its full depth.
C5_Witness ==
    /\ Done
    /\ prog.family = "live"
    /\ prog.variant = "shadow"
    /\ prog.params[1] # prog.params[2]
    /\ prog.params[3] = MaxRec
    /\ out = prog.expect

\* run_program ended with this error (the chain of messages, outermost first).
Failed(chain) == result = [tag |-> "Err", val |-> chain]

\* C6: a block runs in a new child frame.  In the program of
\* test_variable_scope an assignment `x = v` made in a block before any
\* declaration of x in it changes the root's x, and the change is printed
\* after the block; after `let x` in the block, reads and assignments of that
\* block and of the block nested in it go to the block's x and the root's x
\* keeps its value; once the block has ended the root's x is what the last
\* outer assignment made it, and z, declared only in the block, is undefined.
C6_BlockScope ==
    prog.family = "block" =>
        /\ IsPrefix(out, prog.expect)
        /\ "z" \notin DOMAIN frames[1].variables
        /\ pc > 5 => frames[1].variables["x"] = Int32(prog.params[3])
        /\ Done => /\ out = prog.expect
                   /\ Failed(<<UndefinedVariable>>)
                   /\ pc = Len(prog.statements)

\* The program ended with the four values told apart: the inner declaration
\* and the outer assignment gave x different values.
C6_Witness ==
    /\ prog.family = "block"
    /\ Done
    /\ prog.params[3] # prog.params[4]
    /\ prog.params[1] # prog.params[2]
    /\ Len(out) = Len(prog.expect)

\* C7: lexical scoping.  Every call made so far, in any program, got a frame
\* whose parent is the scope its closure captured, which is not the frame of
\* the caller; in the lexical programs the parameters are bound in that frame
\* and every call prints the x of the place the function was written in,
\* whatever x the caller has (a parameter named x, a block's x, the root's x).
C7_LexicalScoping ==
    /\ \A i \in 1..Len(calls) :
          /\ frames[calls[i].frame].parent = calls[i].scope
          /\ calls[i].scope # calls[i].caller
          /\ calls[i].frame # calls[i].caller
    /\ prog.family = "lexical" =>
          /\ \A i \in 1..Len(calls) : \A k \in 1..Len(calls[i].arguments) :
                frames[calls[i].frame].variables[calls[i].arguments[k]]
                    = calls[i].values[k]
          /\ IsPrefix(out, prog.expect)
          /\ Done => (RanToEnd /\ out = prog.expect)

\* A lexical program ran to its end where the callers' x differs from the x
\* of the definition sites; g was called from a call frame and from a block.
C7_Witness ==
    /\ prog.family = "lexical"
    /\ Done
    /\ prog.params[1] # prog.params[2]
    /\ Len(calls) = 5
    /\ \E i \in 1..Len(calls) : calls[i].caller \notin {0, 1}

\* C8: each call creates a frame of its own.  No two calls made so far share
\* a frame and no call uses a frame that is its closure's captured scope; in
\* test_function_curry the closure made by foo(a1) adds a1 and the one made
\* by foo(a2) adds a2 to their argument, in whichever order the two are
\* called and however often, and the a of each call of foo stays what that
\* call bound.
C8_FreshFrames ==
    /\ \A i, j \in 1..Len(calls) : i # j => calls[i].frame # calls[j].frame
    /\ \A i \in 1..Len(calls) : calls[i].frame # calls[i].scope
    /\ prog.family = "curry" =>
          /\ \A i \in 1..Len(calls) :
                calls[i].arguments = <<"a">> =>
                   frames[calls[i].frame].variables["a"] = calls[i].values[1]
          /\ IsPrefix(out, prog.expect)
          /\ Done => (RanToEnd /\ out = prog.expect)

\* The program of the test ran to its end with the first closure called
\* again after the second one.
C8_Witness ==
    /\ prog.family = "curry"
    /\ Done
    /\ prog.variant = <<1, 2, 1>>
    /\ prog.params = <<10, 5, 42>>
    /\ out = <<"52", "47", "52", "42">>

\* C9: `return` ends the function body.  Whatever blocks, if / else-if /
\* else branches, `while` bodies and `for` bodies the return is nested in,
\* nothing is printed after it, no loop runs another iteration (u counts one
\* iteration for each enclosing `while`), no update clause of an enclosing
\* `for` runs (it would add 10 to u), and the call yields the returned value.
C9_ReturnShortCircuit ==
    prog.family = "return" =>
        /\ IsPrefix(out, prog.expect)
        /\ \A i \in 1..Len(out) : out[i] # "dead"
        /\ Done => (RanToEnd /\ out = prog.expect)

\* A return two constructs deep ran: inside an else-if branch of the body of
\* a loop that was in its second iteration.
C9_Witness ==
    /\ prog.family = "return"
    /\ Done
    /\ prog.variant = <<"later", "elseif">>
    /\ out = <<"in", "0", "1", IntToString(prog.params[1]), "0">>

\* C10: a call whose body ends without a `return` fails.  run_program ends
\* at the statement that makes the call, with the plain missing-return error
\* for a direct call and with the error prefixed by the built-in's name for a
\* callback of map / filter / all / any; nothing after the call runs.
C10_MissingReturn ==
    prog.family = "noreturn" =>
        /\ pc <= 2
        /\ Done => Failed(prog.expect)
        /\ \A i \in 1..Len(out) : out[i] # "dead"

\* A callback of `all` that printed and then ended without a return.
C10_Witness ==
    /\ prog.family = "noreturn"
    /\ prog.variant = "all"
    /\ Done
    /\ out = <<"7">>
    /\ Failed(<<"all: function must return a value">>)

\* C11: execution is fail-fast.  A statement that fails at the top level or
\* inside a block, an if branch, a function body or a loop body stops the
\* program: nothing after it runs, neither the print that follows it in its
\* block nor the print that follows the construct, and run_program returns
\* the error.
C11_FailFast ==
    prog.family = "failfast" =>
        /\ out = <<>>
        /\ Done => result.tag = "Err"

\* C12: `&&` and `||` short-circuit.  The right operand of `&&` is evaluated
\* only when the left one is true, the right operand of `||` only when the
\* left one is false: when the left operand decides the result the program
\* prints that result, the right operand neither prints nor fails, and the
\* program runs to its end; otherwise the right operand is evaluated once and
\* its value is the result, or its error ends the program.
C12_ShortCircuit ==
    prog.family = "logic" =>
        /\ IsPrefix(out, prog.expect)
        /\ Done => /\ out = prog.expect
                   /\ IF (prog.variant = "Or") = prog.params[1]
                         \/ prog.params[2] # "error"
                      THEN RanToEnd
                      ELSE Failed(<<"Division by zero">>)

\* `true || (1 / 0)` was printed as true and the program ran to its end.
C12_Witness ==
    /\ prog.family = "logic"
    /\ prog.variant = "Or"
    /\ prog.params = <<TRUE, "error">>
    /\ RanToEnd
    /\ out = <<"true", "after">>


(***************************************************************************)
(* SpecRepl: the REPL (main.rs, run_repl).  One interpreter lives for the  *)
(* whole session; every line read is one statement, executed in that       *)
(* interpreter, and a line that fails leaves the session running.  A       *)
(* session draws its lines, in any order and any number of times, from the *)
(* lines of `prog`; `last` is the index of the line executed last (0       *)
(* before the first) and `result` what the REPL printed for it: the value  *)
(* of an expression statement, or the error.                               *)
(***************************************************************************)
\* The lines of the sessions.  Each line is a statement with a note of what
\* it does (op), of the expression denoting the collection it acts on
\* (target) and of the key or element it acts with (key).
Sessions ==
    LET Line(stmt, op, target, key) ==
            [stmt |-> stmt, op |-> op, target |-> target, key |-> key]
        Method(target, m, args) == ECall(EMember(target, m), args)
        Do(target, m, args, key) ==
            Line(SExpression(Method(target, m, args)), m, target, key)
        ctor(T) == CASE T = "list" -> CallE("list", <<Num(1)>>)
                     [] T = "set" -> CallE("set", <<Num(1)>>)
                     [] T = "dict" -> CallE("dict", <<ETuple(<<Num(1), Num(1)>>)>>)
        put(T) == CASE T = "list" -> "push" [] T = "set" -> "add"
                    [] T = "dict" -> "set"
        drop(T) == IF T = "list" THEN "pop" ELSE "remove"
        putargs(T, k) == IF T = "dict" THEN <<Num(k), Num(k)>> ELSE <<Num(k)>>
        dropargs(T, k) == IF T = "list" THEN <<>> ELSE <<Num(k)>>
        at0 == Method(Id("l"), "at", <<Num(0)>>)
        \* One collection x and its other holders: a second variable y, a
        \* list l that stores it, a bound method m of it, and the parameter
        \* of a function f called with it.
        ShareSetup(T) ==
            <<SDeclaration("x", ctor(T)),
              SDeclaration("y", Id("x")),
              SDeclaration("l", CallE("list", <<Id("x")>>)),
              SDeclaration("m", EMember(Id("x"), put(T))),
              SDeclaration("f", EFunction(<<"c">>, EBlock(
                  <<SExpression(Method(Id("c"), put(T), putargs(T, 2))),
                    SReturn(Num(0))>>)))>>
        Share(T) ==
            <<Do(Id("x"), put(T), putargs(T, 2), 2),
              Do(Id("y"), put(T), putargs(T, 2), 2),
              Do(at0, put(T), putargs(T, 2), 2),
              Line(SExpression(CallE("m", putargs(T, 2))), put(T), Id("m"), 2),
              Line(SExpression(CallE("f", <<Id("y")>>)), put(T), Id("y"), 2),
              Do(Id("x"), drop(T), dropargs(T, 2), 2),
              Do(Id("y"), drop(T), dropargs(T, 2), 2),
              Do(at0, drop(T), dropargs(T, 2), 2)>>
        \* Two keys of the four hashable kinds (n is bound to null).
        KeyPairs == {<<Num(1), EBoolean(TRUE)>>, <<EString("a"), Id("n")>>,
                     <<Num(1), EString("a")>>}
        null == Method(CallE("set", <<>>), "add", <<Num(0)>>)
        tuple == ETuple(<<Num(1), Num(2)>>)
        \* A set x under its constructor, add, remove, has and length, with
        \* keys that are hashable and keys that are not (a tuple, the set).
        SetLines(k) ==
            <<Line(SDeclaration("x", CallE("set", <<k[1], k[2], k[1]>>)),
                   "new", Id("x"), <<k[1], k[2], k[1]>>),
              Line(SDeclaration("x", CallE("set", <<k[1], tuple>>)),
                   "new", Id("x"), <<k[1], tuple>>),
              Do(Id("x"), "add", <<k[1]>>, k[1]),
              Do(Id("x"), "add", <<k[2]>>, k[2]),
              Do(Id("x"), "remove", <<k[1]>>, k[1]),
              Do(Id("x"), "remove", <<k[2]>>, k[2]),
              Do(Id("x"), "has", <<k[1]>>, k[1]),
              Do(Id("x"), "has", <<k[2]>>, k[2]),
              Do(Id("x"), "length", <<>>, k[1]),
              Do(Id("x"), "add", <<tuple>>, tuple),
              Do(Id("x"), "add", <<Id("x")>>, Id("x")),
              Do(Id("x"), "remove", <<tuple>>, tuple),
              Do(Id("x"), "has", <<tuple>>, tuple)>>
        pair(k, v) == ETuple(<<k, Num(v)>>)
        \* A dictionary d under its constructor, set, get, remove and
        \* length, with the same keys.
        DictLines(k) ==
            <<Line(SDeclaration("d", CallE("dict",
                       <<pair(k[1], 1), pair(k[2], 1), pair(k[1], 2)>>)),
                   "new", Id("d"), <<k[1], k[2], k[1]>>),
              Line(SDeclaration("d", CallE("dict", <<pair(k[1], 1), pair(tuple, 1)>>)),
                   "new", Id("d"), <<k[1], tuple>>),
              Do(Id("d"), "set", <<k[1], Num(1)>>, k[1]),
              Do(Id("d"), "set", <<k[1], Num(2)>>, k[1]),
              Do(Id("d"), "set", <<k[2], Num(1)>>, k[2]),
              Do(Id("d"), "remove", <<k[1]>>, k[1]),
              Do(Id("d"), "remove", <<k[2]>>, k[2]),
              Do(Id("d"), "get", <<k[1]>>, k[1]),
              Do(Id("d"), "get", <<k[2]>>, k[2]),
              Do(Id("d"), "length", <<>>, k[1]),
              Do(Id("d"), "set", <<tuple, Num(1)>>, tuple),
              Do(Id("d"), "set", <<Id("d"), Num(1)>>, Id("d")),
              Do(Id("d"), "remove", <<tuple>>, tuple),
              Do(Id("d"), "get", <<tuple>>, tuple)>>
        \* Two sets x and y of the keys 1 and 2, and z bound to their
        \* union, intersection or difference and changed afterwards.
        Algebra ==
            <<Do(Id("x"), "add", <<Num(1)>>, 1),
              Do(Id("x"), "add", <<Num(2)>>, 2),
              Do(Id("x"), "remove", <<Num(1)>>, 1),
              Do(Id("y"), "add", <<Num(1)>>, 1),
              Do(Id("y"), "add", <<Num(2)>>, 2),
              Do(Id("y"), "remove", <<Num(2)>>, 2),
              Line(SDeclaration("z", Method(Id("x"), "union", <<Id("y")>>)),
                   "union", Id("z"), 0),
              Line(SDeclaration("z", Method(Id("x"), "intersection", <<Id("y")>>)),
                   "intersection", Id("z"), 0),
              Line(SDeclaration("z", Method(Id("x"), "difference", <<Id("y")>>)),
                   "difference", Id("z"), 0),
              Do(Id("z"), "add", <<Num(1)>>, 1),
              Do(Id("z"), "add", <<Num(2)>>, 2),
              Do(Id("z"), "remove", <<Num(1)>>, 1),
              Do(Id("z"), "remove", <<Num(2)>>, 2)>>
        \* A list l under push, pop and at, with indexes in and out of range.
        ListLines ==
            <<Do(Id("l"), "push", <<Num(1)>>, <<1>>),
              Do(Id("l"), "push", <<Num(2), Num(1)>>, <<2, 1>>),
              Do(Id("l"), "pop", <<>>, 0),
              Do(Id("l"), "at", <<Num(0)>>, 0),
              Do(Id("l"), "at", <<Num(1)>>, 1),
              Do(Id("l"), "at", <<Num(2)>>, 2),
              Do(Id("l"), "at", <<Num(MaxLen)>>, MaxLen),
              Do(Id("l"), "at", <<EUnaryOp("Neg", Num(1))>>, -1)>>
        \* Statements of every kind, each with the value it yields (key):
        \* after the lines of a setup, any of these lines in any order.
        Yields(stmt, value) == Line(stmt, "yield", Id("c"), value)
        set_c(b) == EBlock(<<SAssignment("c", EBoolean(b))>>)
        ret(n) == EBlock(<<SReturn(Num(n))>>)
        Setup(v) ==
            CASE v = "plain" -> <<Print1(Num(1)), SDeclaration("c", EBoolean(TRUE)),
                                  SAssignment("c", EBoolean(FALSE)), SReturn(Num(1))>>
              [] v = "signal" -> <<SDeclaration("c", EBoolean(TRUE)),
                                   SDeclaration("y", ret(7))>>
              [] v = "call" -> <<SDeclaration("c", EBoolean(TRUE)),
                                 SDeclaration("f", EFunction(<<>>, ret(5)))>>
        StatementLines(v) ==
            <<Yields(SExpression(EBinaryOp("Add", Num(1), Num(2))), Int32(3)),
              Yields(SExpression(EBinaryOp("Eq", Id("c"), Id("c"))), Boolean(TRUE)),
              Yields(SDeclaration("c", EBoolean(TRUE)), Null),
              Yields(SAssignment("c", EBoolean(TRUE)), Null),
              Yields(SReturn(Num(1)), Return(Int32(1))),
              Yields(SIf(EBoolean(TRUE), set_c(FALSE), None), Null),
              Yields(SIf(EBoolean(FALSE), ret(1), Some(set_c(TRUE))), Null),
              Yields(SIf(EBoolean(FALSE), ret(1), None), Null),
              Yields(SIf(EBoolean(TRUE), ret(2), None), Return(Int32(2))),
              Yields(SWhile(Id("c"), set_c(FALSE)), Null),
              Yields(SWhile(EBoolean(TRUE), ret(3)), Return(Int32(3))),
              Yields(SFor(Some(SDeclaration("i", Num(0))),
                          Some(EBinaryOp("Lt", Id("i"), Num(1))),
                          Some(SAssignment("i", EBinaryOp("Add", Id("i"), Num(1)))),
                          set_c(TRUE)), Null),
              Yields(SFor(None, None, None, ret(4)), Return(Int32(4))),
              Yields(SExpression(ret(6)), Return(Int32(6))),
              Yields(SExpression(set_c(FALSE)), Null)>>
            \o CASE v = "plain" -> <<>>
                 [] v = "signal" ->
                      <<Yields(SExpression(Id("y")), Return(Int32(7))),
                        Yields(SIf(EBoolean(TRUE), EBlock(<<SExpression(Id("y"))>>),
                                   None), Return(Int32(7)))>>
                 [] v = "call" ->
                      <<Yields(SExpression(CallE("f", <<>>)), Int32(5))>>
    IN {Program("share", T, ShareSetup(T), Share(T), <<>>)
        : T \in {"list", "set", "dict"}}
       \cup
       {Program("statement", v, Setup(v), StatementLines(v), <<>>)
        : v \in {"plain", "signal", "call"}}
       \cup
       {Program("set", k,
                <<SDeclaration("n", null), SDeclaration("x", CallE("set", <<>>))>>,
                SetLines(k), <<>>)
        : k \in KeyPairs}
       \cup
       {Program("algebra", "set",
                <<SDeclaration("x", CallE("set", <<>>)),
                  SDeclaration("y", CallE("set", <<>>))>>,
                Algebra, <<>>)}
       \cup
       {Program("list", "l", <<SDeclaration("l", CallE("list", <<>>))>>,
                ListLines, <<>>)}
       \cup
       {Program("dict", k,
                <<SDeclaration("n", null), SDeclaration("d", CallE("dict", <<>>))>>,
                DictLines(k), <<>>)
        : k \in KeyPairs}

InitRepl ==
    /\ prog \in Sessions
    /\ build \in Builds
    /\ frames = new
    /\ lists = <<>>
    /\ out = <<>>
    /\ calls = <<>>
    /\ last = 0
    /\ pc = 1
    /\ result = Running

\* run_repl: one line, whose statement's outcome is printed.  A session
\* starts with the lines of prog.params, in their order, and goes on with
\* any of the lines of prog.statements while the heap has at most MaxCells
\* cells, no list more than MaxLen elements and the scopes at most MaxScopes
\* frames.
Repl ==
    \E i \in 1..Len(prog.statements) :
        /\ LET held(fr) ==
                  LET roots == {fr[1].variables[n] : n \in DOMAIN fr[1].variables}
                  IN roots \cup {v.this : v \in {w \in roots : w.t = "BuiltinFn"}}
               listsof(S) == {v \in S : v.t = "List"}
               reach(st) ==
                  listsof(held(st.frames)) \cup
                  listsof(UNION {{st.lists[v.v][j] : j \in 1..Len(st.lists[v.v])}
                                 : v \in listsof(held(st.frames))})
               println(r) ==
                  /\ r.tag \in {"Ok", "Err"}
                  /\ Len(r.st.lists) <= MaxCells
                  /\ Len(r.st.frames) <= MaxScopes
                  /\ \A v \in reach(r.st) : Len(r.st.lists[v.v]) <= MaxLen
                  /\ frames' = r.st.frames
                  /\ lists' = r.st.lists
                  /\ out' = r.st.out
                  /\ calls' = r.st.calls
                  /\ result' = [tag |-> r.tag, val |-> r.val]
           IN IF pc <= Len(prog.params)
              THEN /\ i = 1
                   /\ println(execute_statement(prog.params[pc], 1, State))
                   /\ pc' = pc + 1
                   /\ last' = 0
              ELSE /\ println(execute_statement(prog.statements[i].stmt, 1, State))
                   /\ pc' = pc
                   /\ last' = i
    /\ UNCHANGED <<build, prog>>

SpecRepl == InitRepl /\ [][Repl]_vars

\* C13: lists, sets and dictionaries are shared by reference.  With x bound
\* to a collection, y bound to x, l a list that stores x, m a bound method of
\* x and f a function called with y, every push / add / set and every pop /
\* remove made through any of them is observed through x, through y and
\* through l.at(0) alike: the element or key is there (or gone) and the
\* length is the one after the mutation, whichever holder is asked.
C13_SharedByReference ==
    [][LET T == prog.variant
           line == prog.statements[last']
           before == State
           after == [State EXCEPT !.frames = frames', !.lists = lists']
           Method(target, m, args) == ECall(EMember(target, m), args)
           see(e, st) == eval_expr(e, 1, st).val
           length(g, st) == see(Method(g, "length", <<>>), st).v
           Observers == {Id("x"), Id("y"), Method(Id("l"), "at", <<Num(0)>>)}
           had(g) ==
               CASE T = "set" -> see(Method(g, "has", <<Num(2)>>), before).v
                 [] T = "dict" -> see(Method(g, "get", <<Num(2)>>), before) # Null
                 [] T = "list" -> FALSE
           Put(g) ==
               /\ length(g, after) = length(g, before) + (IF had(g) THEN 0 ELSE 1)
               /\ CASE T = "set" ->
                          see(Method(g, "has", <<Num(2)>>), after) = Boolean(TRUE)
                    [] T = "dict" ->
                          see(Method(g, "get", <<Num(2)>>), after) = Int32(2)
                    [] T = "list" ->
                          see(Method(g, "at", <<Num(length(g, before))>>), after)
                              = Int32(2)
           Drop(g) ==
               CASE T = "set" ->
                       /\ see(Method(g, "has", <<Num(2)>>), after) = Boolean(FALSE)
                       /\ length(g, after) = length(g, before) - (IF had(g) THEN 1 ELSE 0)
                 [] T = "dict" ->
                       /\ see(Method(g, "get", <<Num(2)>>), after) = Null
                       /\ length(g, after) = length(g, before) - (IF had(g) THEN 1 ELSE 0)
                 [] T = "list" -> length(g, after) = length(g, before) - 1
       IN (prog.family = "share" /\ last' # 0 /\ result'.tag = "Ok") =>
              \A g \in Observers :
                  IF line.op \in {"push", "add", "set"} THEN Put(g) ELSE Drop(g)
      ]_vars

\* A key was set in the dictionary by the function called with y, while x,
\* y, l and m all held the dictionary.
C13_Witness ==
    /\ prog.family = "share"
    /\ prog.variant = "dict"
    /\ pc > Len(prog.params)
    /\ last = 5
    /\ result = [tag |-> "Ok", val |-> Int32(0)]
    /\ lists[frames[1].variables["x"].v] = Insert(Insert(<<>>, [h |-> "Int32", i |-> 1], Int32(1)),
                                                  [h |-> "Int32", i |-> 2], Int32(2))
    /\ frames[1].variables["m"].this = frames[1].variables["y"]

\* C14: every member of a set and every key of a dictionary is a null, an
\* integer, a boolean or a string, after any sequence of constructor, add,
\* remove, set, union, intersection and difference calls, with hashable and
\* unhashable arguments.
C14_HashableKeys ==
    \A name \in DOMAIN frames[1].variables :
        LET v == frames[1].variables[name]
            keys == CASE v.t = "Set" -> lists[v.v]
                      [] v.t = "Dictionary" -> DOMAIN lists[v.v]
                      [] OTHER -> {}
        IN \A k \in keys : k.h \in {"Null", "Int32", "Boolean", "String"}

\* A set holds a string and the null after an add of a tuple was attempted.
C14_Witness ==
    /\ prog.family = "set"
    /\ last = 10
    /\ lists[frames[1].variables["x"].v] = {[h |-> "String", s |-> "a"], [h |-> "Null"]}


\* C15: every operation that takes a set member or a dictionary key (the
\* set constructor, add, remove and has of a set, the dict constructor, get,
\* set and remove of a dictionary) fails with the invalid-key error when the
\* argument is not hashable, and leaves the collection as it was.
C15_InvalidKey ==
    [][LET line == prog.statements[last']
           args == IF line.op = "new" THEN line.key ELSE <<line.key>>
           unhashable ==
               \E j \in 1..Len(args) :
                   try_from(eval_expr(args[j], 1, State).val).tag = "Err"
       IN (/\ prog.family \in {"set", "dict"}
           /\ last' # 0
           /\ line.op \in {"new", "add", "remove", "has", "get", "set"}
           /\ unhashable)
          => /\ result'.tag = "Err"
             /\ result'.val[Len(result'.val)] = "invalid key"
             /\ lists' = lists
      ]_vars

\* C16: a set is a mathematical set.  The constructor collapses duplicate
\* arguments, adding a member that is present and removing one that is
\* absent change nothing, has(v) is true from the add of v (or a constructor
\* call with v) to the next remove of v, has and length change nothing, and
\* length() is the number of distinct members.
C16_MathematicalSet ==
    [][LET line == prog.statements[last']
           before == State
           after == [State EXCEPT !.frames = frames', !.lists = lists']
           Method(target, m, args) == ECall(EMember(target, m), args)
           see(e, st) == eval_expr(e, 1, st).val
           has(k, st) == see(Method(Id("x"), "has", <<k>>), st).v
           length(st) == see(Method(Id("x"), "length", <<>>), st).v
           Keys == {prog.variant[1], prog.variant[2]}
           others(k) == \A o \in Keys \ {k} : has(o, after) = has(o, before)
           k == line.key
       IN (prog.family = "set" /\ last' # 0 /\ result'.tag = "Ok") =>
           /\ length(after) = Cardinality({o \in Keys : has(o, after)})
           /\ CASE line.op = "new" ->
                      /\ \A o \in Keys :
                            has(o, after) = (\E j \in 1..Len(k) : k[j] = o)
                      /\ length(after)
                           = Cardinality({see(k[j], before) : j \in 1..Len(k)})
                [] line.op = "add" /\ k \in Keys ->
                      /\ has(k, after)
                      /\ others(k)
                      /\ length(after)
                           = length(before) + (IF has(k, before) THEN 0 ELSE 1)
                [] line.op = "remove" /\ k \in Keys ->
                      /\ ~has(k, after)
                      /\ others(k)
                      /\ length(after)
                           = length(before) - (IF has(k, before) THEN 1 ELSE 0)
                [] OTHER ->
                      /\ \A o \in Keys : has(o, after) = has(o, before)
                      /\ length(after) = length(before)
      ]_vars

\* set(1, true, 1) was made: a set of two members.
C16_Witness ==
    /\ prog.family = "set"
    /\ prog.variant = <<Num(1), EBoolean(TRUE)>>
    /\ last = 1
    /\ result.tag = "Ok"
    /\ lists[frames[1].variables["x"].v]
         = {[h |-> "Int32", i |-> 1], [h |-> "Boolean", b |-> TRUE]}

\* C17: x.union(y), x.intersection(y) and x.difference(y) return a new set
\* whose members are exactly those of the union, the intersection and the
\* difference of x and y; x and y are left as they were, and a later add or
\* remove on the returned set changes neither x nor y.
C17_SetAlgebra ==
    [][LET line == prog.statements[last']
           before == State
           after == [State EXCEPT !.frames = frames', !.lists = lists']
           Method(target, m, args) == ECall(EMember(target, m), args)
           see(e, st) == eval_expr(e, 1, st).val
           has(g, k, st) == see(Method(Id(g), "has", <<Num(k)>>), st).v
           same(g) == \A k \in {1, 2} : has(g, k, after) = has(g, k, before)
           expected(k) ==
               CASE line.op = "union" -> has("x", k, before) \/ has("y", k, before)
                 [] line.op = "intersection" ->
                       has("x", k, before) /\ has("y", k, before)
                 [] line.op = "difference" ->
                       has("x", k, before) /\ ~has("y", k, before)
       IN (prog.family = "algebra" /\ last' # 0 /\ result'.tag = "Ok") =>
           IF line.op \in {"union", "intersection", "difference"}
           THEN /\ \A k \in {1, 2} : has("z", k, after) = expected(k)
                /\ see(Id("z"), after) \notin {see(Id("x"), after), see(Id("y"), after)}
                /\ same("x")
                /\ same("y")
           ELSE /\ line.target # Id("x") => same("x")
                /\ line.target # Id("y") => same("y")
      ]_vars

\* z was bound to the difference of x = {1, 2} and y = {2}, and then 2 was
\* added to z.
C17_Witness ==
    /\ prog.family = "algebra"
    /\ last = 11
    /\ result.tag = "Ok"
    /\ lists[frames[1].variables["x"].v] = {[h |-> "Int32", i |-> 1], [h |-> "Int32", i |-> 2]}
    /\ lists[frames[1].variables["y"].v] = {[h |-> "Int32", i |-> 2]}
    /\ lists[frames[1].variables["z"].v] = lists[frames[1].variables["x"].v]
    /\ frames[1].variables["z"] # frames[1].variables["x"]

\* C18: a dictionary round-trips.  d.get(k) is the value most recently
\* stored under k by set or by the constructor (the last of the entries with
\* that key) and not removed since, and null otherwise; set and remove of
\* one key leave the other key alone, get and length change nothing, and
\* d.length() is the number of keys that have a value.
C18_DictRoundTrip ==
    [][LET line == prog.statements[last']
           before == State
           after == [State EXCEPT !.frames = frames', !.lists = lists']
           Method(target, m, args) == ECall(EMember(target, m), args)
           see(e, st) == eval_expr(e, 1, st).val
           stored(k, st) == see(Method(Id("d"), "get", <<k>>), st)
           length(st) == see(Method(Id("d"), "length", <<>>), st).v
           Keys == {prog.variant[1], prog.variant[2]}
           others(k) == \A o \in Keys \ {k} : stored(o, after) = stored(o, before)
           k == line.key
       IN (prog.family = "dict" /\ last' # 0 /\ result'.tag = "Ok") =>
           /\ length(after) = Cardinality({o \in Keys : stored(o, after) # Null})
           /\ CASE line.op = "new" ->
                      /\ stored(prog.variant[1], after) = Int32(2)
                      /\ stored(prog.variant[2], after) = Int32(1)
                [] line.op = "set" ->
                      /\ stored(k, after) = see(line.stmt.expr.args[2], before)
                      /\ others(k)
                [] line.op = "remove" ->
                      /\ stored(k, after) = Null
                      /\ others(k)
                [] line.op = "get" ->
                      /\ result'.val = stored(k, before)
                      /\ \A o \in Keys : stored(o, after) = stored(o, before)
                [] OTHER -> \A o \in Keys : stored(o, after) = stored(o, before)
      ]_vars

\* The value under the key "a" was replaced by a second set, with the null
\* as the other key of the dictionary.
C18_Witness ==
    /\ prog.family = "dict"
    /\ prog.variant = <<EString("a"), Id("n")>>
    /\ last = 4
    /\ result.tag = "Ok"
    /\ lists[frames[1].variables["d"].v]
         = Insert(Insert(<<>>, [h |-> "String", s |-> "a"], Int32(2)),
                  [h |-> "Null"], Int32(1))

\* C19: push appends its arguments in order and returns the new length; pop
\* removes and returns the last element, and fails on an empty list, which
\* stays empty; at(i) returns the element at the 0-based index i and changes
\* nothing, and fails, changing nothing, when i is negative or not less than
\* the length.
C19_ListMethods ==
    [][LET line == prog.statements[last']
           l == lists[frames[1].variables["l"].v]
           l_after == lists'[frames'[1].variables["l"].v]
           i == line.key
       IN (prog.family = "list" /\ last' # 0) =>
           CASE line.op = "push" ->
                    /\ l_after = l \o [j \in 1..Len(i) |-> Int32(i[j])]
                    /\ result' = [tag |-> "Ok", val |-> Int32(Len(l_after))]
             [] line.op = "pop" ->
                    IF l = <<>>
                    THEN result'.tag = "Err" /\ l_after = <<>>
                    ELSE /\ result' = [tag |-> "Ok", val |-> l[Len(l)]]
                         /\ l_after = SubSeq(l, 1, Len(l) - 1)
             [] line.op = "at" ->
                    /\ l_after = l
                    /\ IF 0 <= i /\ i < Len(l)
                       THEN result' = [tag |-> "Ok", val |-> l[i + 1]]
                       ELSE result'.tag = "Err"
      ]_vars

\* A second pop of the list (1, 2, 1) returned 2 and left the list (1).
C19_Witness ==
    /\ prog.family = "list"
    /\ last = 3
    /\ result = [tag |-> "Ok", val |-> Int32(2)]
    /\ lists[frames[1].variables["l"].v] = <<Int32(1)>>

\* C20: filter returns a new list of the elements for which the callback
\* returns true, in their order; map returns a new list of the same length
\* with the callback's result for each element, in order; neither changes
\* the receiver, and a push on either result leaves the receiver as it was.
\* Filtering list(1, ..., 8) for even elements and squaring the result gives
\* list(4, 16, 36, 64).
C20_FilterMap ==
    prog.family = "functional" =>
        /\ IsPrefix(out, prog.expect)
        /\ Done => (RanToEnd /\ out = prog.expect)

\* The program of test_list_functional ran to its end.
C20_Witness ==
    /\ prog.family = "functional"
    /\ prog.variant = "test"
    /\ RanToEnd
    /\ out = <<"list(4, 16, 36, 64)">>

\* C22: arithmetic failures are error values.  For `let r = a op b` with op
\* one of + - * / % ^: when a and b are integers and b is 0 under / or %,
\* when they are integers and b is negative under ^, and whenever they are
\* not two integers (nor, under +, two strings), the statement fails with
\* the operator's error (division by zero, modulo by zero, negative
\* exponent, or the type error of the operator) and r is bound to no value.
C22_ArithmeticFailures ==
    [][LET op == prog.variant
           a == prog.params[1]
           b == prog.params[2]
           ints == a.t = "Int32" /\ b.t = "Int32"
           strings == a.t = "String" /\ b.t = "String"
           zero == ints /\ op \in {"Div", "Mod"} /\ b.v = 0
           negative == ints /\ op = "Pow" /\ b.v < 0
           mistyped == ~ints /\ ~(op = "Add" /\ strings)
           TypeError == [Add |-> "Addition not supported",
                         Sub |-> "Subtraction not supported",
                         Mul |-> "Multiplication not supported",
                         Div |-> "Division not supported",
                         Mod |-> "Modulo not supported",
                         Pow |-> "Cannot exponentiate"]
           message == IF zero
                      THEN (IF op = "Div" THEN "Division by zero" ELSE "Modulo by zero")
                      ELSE IF negative THEN "Negative exponents not supported for Int32"
                      ELSE TypeError[op]
       IN (/\ prog.family = "operator"
           /\ op \in DOMAIN TypeError
           /\ pc = 1 /\ result = Running
           /\ zero \/ negative \/ mistyped)
          => /\ result' = [tag |-> "Err", val |-> <<message>>]
             /\ pc' = 1
             /\ frames'[1] = frames[1]
             /\ "r" \notin DOMAIN frames'[1].variables
      ]_vars

\* -7 / 0 failed with the division-by-zero error and bound nothing.
C22_Witness ==
    /\ prog.family = "operator"
    /\ prog.variant = "Div"
    /\ prog.params = <<Int32(-7), Int32(0)>>
    /\ result = [tag |-> "Err", val |-> <<"Division by zero">>]
    /\ "r" \notin DOMAIN frames[1].variables

\* C23: integer division truncates toward zero and modulo takes the sign of
\* the dividend, for all pairs of 32-bit integers a, b with b # 0: `a / b`
\* and `a % b` yield integers q and m with a = q * b + m, |m| < |b| and m zero
\* or of the sign of a; -12 / 6 = -2, -12 / -6 = 2, 10 % 3 = 1, -7 / 2 = -3,
\* -7 % 2 = -1; and a / b * b + a % b yields a.
C23_TruncatedDivision ==
    [][LET op == prog.variant
           a == prog.params[1].v
           b == prog.params[2].v
           r == frames'[1].variables["r"].v
           sign(n) == IF n < 0 THEN -1 ELSE IF n = 0 THEN 0 ELSE 1
           below(m) == IF b > 0 THEN -b < m /\ m < b ELSE b < m /\ b < -m
           remainder(m) == /\ below(m)
                           /\ m = 0 \/ sign(m) = sign(a)
           multiple(n) == IF b = I32Min THEN n \in {0, I32Min} ELSE n % Abs(b) = 0
           Examples == {<<"Div", -12, 6, -2>>, <<"Div", -12, -6, 2>>,
                        <<"Mod", 10, 3, 1>>, <<"Div", -7, 2, -3>>,
                        <<"Mod", -7, 2, -1>>}
       IN (/\ prog.family = "operator"
           /\ op \in {"Div", "Mod", "Identity"}
           /\ prog.params[1].t = "Int32" /\ prog.params[2].t = "Int32"
           /\ b # 0
           /\ pc = 1 /\ result = Running)
          => /\ pc' = 2
             /\ result' = Running
             /\ "r" \in DOMAIN frames'[1].variables
             /\ frames'[1].variables["r"].t = "Int32"
             /\ op = "Div" => remainder(a - r * b)
             /\ op = "Mod" => remainder(r) /\ multiple(a - r)
             /\ op = "Identity" => r = a
             /\ \A e \in Examples : (op = e[1] /\ a = e[2] /\ b = e[3]) => r = e[4]
      ]_vars

\* C24: the ordering comparisons < <= > >= yield a boolean, the order of the
\* two operands, when both are integers, both booleans (false before true)
\* or both strings (lexicographic), and fail with an error for every other
\* pair of operands (different types, Null, a list, a tuple, a function),
\* binding no value; they never yield false for such a pair.
C24_OrderingComparisons ==
    [][LET op == prog.variant
           a == prog.params[1]
           b == prog.params[2]
           scalar == a.t = b.t /\ a.t \in {"Int32", "Boolean", "String"}
           Sorted == <<"", "a", "ab", "b">>
           rank(x) == CASE x.t = "Int32" -> x.v
                        [] x.t = "Boolean" -> IF x.v THEN 1 ELSE 0
                        [] x.t = "String" -> CHOOSE i \in 1..Len(Sorted) : Sorted[i] = x.v
           order == CASE op = "Lt" -> rank(a) < rank(b)
                      [] op = "Le" -> rank(a) <= rank(b)
                      [] op = "Gt" -> rank(a) > rank(b)
                      [] op = "Ge" -> rank(a) >= rank(b)
       IN (/\ prog.family = "operator"
           /\ op \in {"Lt", "Le", "Gt", "Ge"}
           /\ pc = 1 /\ result = Running)
          => IF scalar
             THEN /\ pc' = 2
                  /\ frames'[1].variables["r"] = Boolean(order)
             ELSE /\ result'.tag = "Err"
                  /\ "r" \notin DOMAIN frames'[1].variables
      ]_vars

\* C25: == and != never fail.  For two integers, two booleans or two strings
\* `a == b` is true exactly when the values are equal and `a != b` is its
\* negation; for operands of different types (an integer, a boolean, a
\* string, Null, a list, a tuple, a function against one another) == is
\* false and != is true.
C25_Equality ==
    [][LET op == prog.variant
           a == prog.params[1]
           b == prog.params[2]
           scalar == a.t = b.t /\ a.t \in {"Int32", "Boolean", "String"}
           r == frames'[1].variables["r"]
       IN (/\ prog.family = "operator"
           /\ op \in {"Eq", "Ne"}
           /\ pc = 1 /\ result = Running)
          => /\ pc' = 2
             /\ result' = Running
             /\ scalar => r = Boolean((a.v = b.v) = (op = "Eq"))
             /\ a.t # b.t => r = Boolean(op = "Ne")
      ]_vars

\* `2 != true` was evaluated to true.
C25_Witness ==
    /\ prog.family = "operator"
    /\ prog.variant = "Ne"
    /\ prog.params = <<Int32(2), Boolean(TRUE)>>
    /\ pc = 2
    /\ frames[1].variables["r"] = Boolean(TRUE)

\* C21: a call of a closure with a number of arguments different from its
\* number of parameters fails with the arity-mismatch error, and the failed
\* call changes nothing: the body is not evaluated (nothing is printed, u
\* keeps its value), no parameter is bound and no frame is made or written,
\* whatever the arguments are (literals, calls with effects, an undefined
\* name) and whether they are too few or too many.
C21_ArityMismatch ==
    [][(/\ prog.family = "arity"
        /\ Len(prog.params) # prog.variant
        /\ pc = 6 /\ result = Running)
       => /\ result' = [tag |-> "Err", val |-> <<ArityMismatch>>]
          /\ pc' = 6
          /\ frames' = frames
          /\ lists' = lists
          /\ out' = out
          /\ calls' = calls
      ]_vars

\* f, of two parameters, was called with three arguments, two of them calls
\* of g: the call failed, u is 0 and neither g nor the body has run.
C21_Witness ==
    /\ prog.family = "arity"
    /\ prog.variant = 2
    /\ prog.params = <<"call", "lit", "call">>
    /\ result = [tag |-> "Err", val |-> <<ArityMismatch>>]
    /\ frames[1].variables["u"] = Int32(0)
    /\ out = <<>>
    /\ calls = <<>>

\* C26: strict booleans.  When the operand of !, an evaluated operand of &&
\* or || (the left one, or the right one when the left does not decide), the
\* condition of if, while or for, or the value returned by the callback of
\* filter, all or any is not a boolean (0, 1, "", "true", Null, a list, a
\* tuple), the statement fails with the expected-boolean error and nothing
\* is printed: no branch or body runs and no result is formed, so the value
\* was taken neither for true nor for false.
C26_StrictBooleans ==
    [][(/\ prog.family = "strict"
        /\ prog.variant \notin {"and_skipped", "or_skipped"}
        /\ prog.params[1] \notin {"true", "false"}
        /\ pc = 5 /\ result = Running)
       => /\ result' = [tag |-> "Err", val |-> <<ExpectedBoolean>>]
          /\ pc' = 5
          /\ out' = out
      ]_vars

\* `if (0) { print("then") } else { print("else") }` failed and printed
\* nothing.
C26_Witness ==
    /\ prog.family = "strict"
    /\ prog.variant = "if"
    /\ prog.params = <<"zero">>
    /\ pc = 5
    /\ result = [tag |-> "Err", val |-> <<ExpectedBoolean>>]
    /\ out = <<>>

\* C27: expressions are grouped by binding power, || < && < (== !=) <
\* (<= >= < >) < (+ -) < (* / %) < ^ < prefix (! and unary -) < postfix (call,
\* member access), every infix level associating to the left except ^, which
\* associates to the right.  So `2 a 3 b 2` is (2 a 3) b 2 when a binds
\* tighter than b or as tight and is not ^, and 2 a (3 b 2) otherwise;
\* `p 2 b 3` is (p 2) b 3 and `2 a p 3` is 2 a (p 3) for a prefix p;
\* `p f(3) b l.length()` is (p (f(3))) b ((l.length)()); and the expressions
\* of test_operators print 9 for 1 + 2 * 4, 12 for (1+2)*4, 300 for
\* 3 * 2 * 5 * 10 and so on.
C27_Grouping ==
    LET Level == [logical_or |-> 1, logical_and |-> 2, eq |-> 3, ne |-> 3,
                  le |-> 4, ge |-> 4, lt |-> 4, gt |-> 4, add |-> 5,
                  subtract |-> 5, multiply |-> 6, divide |-> 6, modulo |-> 6,
                  power |-> 7]
        Name == [logical_or |-> "Or", logical_and |-> "And", eq |-> "Eq",
                 ne |-> "Ne", le |-> "Le", ge |-> "Ge", lt |-> "Lt", gt |-> "Gt",
                 add |-> "Add", subtract |-> "Sub", multiply |-> "Mul",
                 divide |-> "Div", modulo |-> "Mod", power |-> "Pow",
                 unary_minus |-> "Neg", logical_not |-> "Not"]
        a == prog.params[1]
        b == prog.params[2]
        tree == prog.statements[1].value
        Bin(o, l, r) == [k |-> "BinaryOp", op |-> Name[o], left |-> l, right |-> r]
        Un(o, e) == [k |-> "UnaryOp", op |-> Name[o], operand |-> e]
        n(i) == [k |-> "Number", n |-> i]
        id(x) == [k |-> "Identifier", name |-> x]
        applied(t, as) == [k |-> "Call", target |-> t, args |-> as]
        left_first == Level[a] > Level[b] \/ (Level[a] = Level[b] /\ a # "power")
    IN prog.family = "grouping" =>
          CASE prog.variant = "chain" ->
                  tree = IF left_first THEN Bin(b, Bin(a, n(2), n(3)), n(2))
                         ELSE Bin(a, n(2), Bin(b, n(3), n(2)))
            [] prog.variant = "prefix" -> tree = Bin(b, Un(a, n(2)), n(3))
            [] prog.variant = "operand" -> tree = Bin(a, n(2), Un(b, n(3)))
            [] prog.variant = "postfix" ->
                  tree = Bin(b, Un(a, applied(id("f"), <<n(3)>>)),
                             applied([k |-> "Member", target |-> id("l"),
                                   field |-> "length"], <<>>))
            [] prog.variant = "test" ->
                  /\ IsPrefix(out, prog.expect)
                  /\ Done => (RanToEnd /\ out = prog.expect)

\* 2 ^ 3 ^ 2 was parsed as 2 ^ (3 ^ 2) and evaluated to 512.
C27_Witness ==
    /\ prog.family = "grouping"
    /\ prog.variant = "chain"
    /\ prog.params = <<"power", "power">>
    /\ pc = 2
    /\ frames[1].variables["r"] = Int32(512)

\* C28: each executed print appends exactly one line to the sink.  Its
\* arguments are all evaluated first, from left to right (the lines printed
\* by the calls of g among them come first, in that order); then one line is
\* written, the formatted values joined by single spaces (the empty line for
\* no argument).  If an argument fails, the arguments before it have been
\* evaluated and nothing is written for the print, which fails with the
\* argument's error.  The next print's line comes after.
C28_PrintLine ==
    [][LET kinds == prog.params
           Bad == {i \in 1..Len(kinds) : kinds[i] = "bad"}
           failed == Bad # {}
           stop == IF failed THEN CHOOSE i \in Bad : \A j \in Bad : i <= j
                   ELSE Len(kinds) + 1
           called == SelectSeq(<<1, 2, 3>>,
                               LAMBDA i : i < stop /\ i <= Len(kinds) /\ kinds[i] = "call")
           side == [i \in 1..Len(called) |-> ToString(called[i])]
           line == CASE Len(kinds) = 0 -> ""
                     [] Len(kinds) = 1 -> "1"
                     [] Len(kinds) = 2 -> "1 2"
                     [] Len(kinds) = 3 -> "1 2 3"
       IN (prog.family = "print" /\ result = Running)
          => /\ pc = 5 =>
                  IF failed
                  THEN /\ out' = out \o side
                       /\ result' = [tag |-> "Err", val |-> <<UndefinedVariable>>]
                       /\ pc' = 5
                  ELSE /\ out' = out \o side \o <<line>>
                       /\ result' = Running
                       /\ pc' = 6
             /\ pc = 6 => out' = out \o <<"after">>
      ]_vars

\* print(g(1), 2, g(3)) wrote "1" and "3" for the calls and then its line.
C28_Witness ==
    /\ prog.family = "print"
    /\ prog.params = <<"call", "lit", "call">>
    /\ pc = 6
    /\ out = <<"1", "3", "1 2 3">>

\* C29 as stated: in a call of a closure the argument expressions are
\* evaluated, left to right, before the arity is verified.  When the number
\* of arguments differs from the number of parameters, the arguments have
\* been evaluated by the time the call fails: the calls of g among them have
\* printed and pushed, up to the first argument that fails, whose error is
\* the one raised; when none fails the arity-mismatch error is raised.
C29_ArgumentsFirst ==
    [][LET kinds == prog.params
           Bad == {i \in 1..Len(kinds) : kinds[i] = "bad"}
           failed == Bad # {}
           stop == IF failed THEN CHOOSE i \in Bad : \A j \in Bad : i <= j
                   ELSE Len(kinds) + 1
           called == SelectSeq(<<1, 2, 3>>,
                               LAMBDA i : i < stop /\ i <= Len(kinds) /\ kinds[i] = "call")
           side == [i \in 1..Len(called) |-> ToString(called[i])]
       IN (/\ prog.family = "arity"
           /\ Len(kinds) # prog.variant
           /\ pc = 6 /\ result = Running)
          => /\ out' = out \o side
             /\ lists'[frames[1].variables["l"].v] = [i \in 1..Len(called) |-> Int32(called[i])]
             /\ result' = [tag |-> "Err",
                           val |-> <<IF failed THEN UndefinedVariable ELSE ArityMismatch>>]
      ]_vars

\* C29, amended: the arity is verified before any argument is evaluated.
\* When the number of arguments differs from the number of parameters the
\* call fails with the arity-mismatch error and no argument has been
\* evaluated: nothing is printed or pushed, and an argument that would fail
\* does not.  When the numbers agree the arguments are evaluated left to
\* right in the caller's scope (a reads the caller's 7, not the parameter a)
\* before the body is entered, and the first argument that fails ends the
\* call with its error, the arguments before it evaluated and the body not
\* entered.
C29_ArityFirst ==
    [][LET kinds == prog.params
           Bad == {i \in 1..Len(kinds) : kinds[i] = "bad"}
           failed == Bad # {}
           stop == IF failed THEN CHOOSE i \in Bad : \A j \in Bad : i <= j
                   ELSE Len(kinds) + 1
           called == SelectSeq(<<1, 2, 3>>,
                               LAMBDA i : i < stop /\ i <= Len(kinds) /\ kinds[i] = "call")
           side == [i \in 1..Len(called) |-> ToString(called[i])]
           pushed == [i \in 1..Len(called) |-> Int32(called[i])]
           values == [i \in 1..Len(kinds) |->
                         IF kinds[i] = "name" THEN Int32(7) ELSE Int32(i)]
           l == frames[1].variables["l"].v
           entered == calls'[Len(calls')]
       IN (prog.family = "arity" /\ pc = 6 /\ result = Running)
          => IF Len(kinds) # prog.variant
             THEN /\ result' = [tag |-> "Err", val |-> <<ArityMismatch>>]
                  /\ out' = out
                  /\ lists' = lists
             ELSE IF failed
             THEN /\ result' = [tag |-> "Err", val |-> <<UndefinedVariable>>]
                  /\ out' = out \o side
                  /\ lists'[l] = pushed
                  /\ frames'[1].variables["u"] = Int32(0)
             ELSE /\ result' = Running
                  /\ out' = out \o side \o <<"body">>
                  /\ lists'[l] = pushed
                  /\ entered.caller = 1
                  /\ entered.values = values
                  /\ frames'[1].variables["u"] = Int32(1)
      ]_vars

\* f(g(1), z, g(3)) with f of two parameters failed on its arity: g has not
\* run and z was not read.
C29_Witness ==
    /\ prog.family = "arity"
    /\ prog.variant = 2
    /\ prog.params = <<"call", "bad", "call">>
    /\ result = [tag |-> "Err", val |-> <<ArityMismatch>>]
    /\ out = <<>>
    /\ lists[frames[1].variables["l"].v] = <<>>

\* C30 as stated: a statement yields Null or a return-signal and no other
\* value, a return-signal only when a return statement was executed within
\* it; so print, declaration, assignment and expression statements and the
\* if, while and for whose bodies execute no return yield Null.
C30_NullOrReturn ==
    [][LET setup == pc <= Len(prog.params)
           stmt == IF setup THEN prog.params[pc] ELSE prog.statements[last'].stmt
           \* The lines within which a return statement is executed.
           Returns == {5, 9, 11, 13, 14}
           returned == IF setup THEN stmt.k = "Return" ELSE last' \in Returns
           val == result'.val
       IN (prog.family = "statement" /\ result'.tag = "Ok")
          => /\ val = Null \/ val.t = "Return"
             /\ val # Null => returned
      ]_vars

\* C30, amended: a print, declaration, assignment, return, if, while or for
\* yields Null or a return-signal and no other value, but an expression
\* statement yields the value of its expression, whatever it is (1 + 2
\* yields 3, f() what f returns, y the return-signal y is bound to).
\* Print, declaration and assignment yield Null and return a return-signal;
\* an if, while or for yields the return-signal that a statement executed in
\* its body yields (a return, or an expression statement whose value is a
\* return-signal) and Null when there is none.
C30_StatementValue ==
    [][LET setup == pc <= Len(prog.params)
           line == prog.statements[last']
           stmt == IF setup THEN prog.params[pc] ELSE line.stmt
           val == result'.val
       IN (prog.family = "statement" /\ result'.tag = "Ok")
          => /\ stmt.k # "Expression" => val = Null \/ val.t = "Return"
             /\ stmt.k \in {"Print", "Declaration", "Assignment"} => val = Null
             /\ stmt.k = "Return" => val = Return(Int32(1))
             /\ ~setup => val = line.key
      ]_vars

\* The line `1 + 2` was executed and yielded 3.
C30_Witness ==
    /\ prog.family = "statement"
    /\ prog.variant = "signal"
    /\ last = 1
    /\ result = [tag |-> "Ok", val |-> Int32(3)]
    /\ Len(frames) = MaxScopes

\* C31: a return-signal is only a control-flow marker.  In every reachable
\* state no variable of any frame is bound to a return-signal, to a tuple
\* that has one as an element or to a list that has one as an element, and
\* no call has received one as an argument.
C31_SignalIsNeverData ==
    LET signal(v) == v.t = "Return"
        inside(v) ==
            \/ v.t = "Tuple" /\ \E i \in 1..Len(v.v) : signal(v.v[i])
            \/ v.t = "List" /\ \E i \in 1..Len(lists[v.v]) : signal(lists[v.v][i])
        data(v) == signal(v) \/ inside(v)
    IN /\ \A f \in 1..Len(frames) : \A n \in DOMAIN frames[f].variables :
              ~data(frames[f].variables[n])
       /\ \A c \in 1..Len(calls) : \A i \in 1..Len(calls[c].values) :
              ~data(calls[c].values[i])

\* C32: in a for loop any of the three clauses may be left out and each one
\* written keeps its role.  The statement written as init is executed once
\* before the first test of the condition (the loop starts from i = 1 with
\* it and from i = 0 without), and the statement written as update after
\* every iteration whose body did not return, with or without an init: the
\* loop prints i from its start to 2, leaves i at 3 and the program goes on.
C32_ForClauses ==
    [][LET w == prog.params
           start == IF w[1] = "yes" THEN 1 ELSE 0
       IN (prog.family = "for" /\ pc = 2 /\ result = Running)
          => /\ result' = Running
             /\ pc' = 3
             /\ out' = [k \in 1..(3 - start) |-> ToString(start + k - 1)]
             /\ frames'[1].variables["i"] = Int32(3)
      ]_vars

\* C33 as stated: map, filter, all and any take exactly one argument, a
\* closure of exactly one parameter.  A call with no argument, with a second
\* argument, with an argument that is not a closure, or with a closure of no
\* parameter or of two fails with an error, and the callback body is never
\* evaluated (nothing is printed, no callback is entered).
C33_ExactlyOneCallback ==
    [][(/\ prog.family = "callback"
        /\ prog.params[1] # "unary"
        /\ pc = 2 /\ result = Running)
       => /\ result'.tag = "Err"
          /\ out' = out
          /\ calls' = calls
      ]_vars

\* C33, amended: map, filter, all and any take at least one argument, the
\* first of which must be a closure of at least one parameter.  A call with
\* no argument, with a first argument that is not a closure (a number, a
\* built-in), or with a closure of no parameter fails with an error and the
\* callback body is never evaluated.  Arguments after the first are ignored,
\* and a closure of two or more parameters is called like one of a single
\* parameter, with its first parameter bound to the element: these calls run
\* the callback on the elements (1 and 2; any stops at 1) and yield a value.
C33_AtLeastOneCallback ==
    [][LET shape == prog.params[1]
           m == prog.variant
           error == CASE shape = "none" -> ": missing function argument"
                      [] shape \in {"number", "builtin"} ->
                            ": first argument must be a function"
                      [] shape = "nullary" ->
                            ": function must accept at least 1 parameter"
           r == frames'[1].variables["r"]
           truths == <<Boolean(TRUE), Boolean(TRUE)>>
       IN (prog.family = "callback" /\ pc = 2 /\ result = Running)
          => IF shape \in {"none", "number", "builtin", "nullary"}
             THEN /\ result' = [tag |-> "Err", val |-> <<m \o error>>]
                  /\ out' = out
                  /\ calls' = calls
                  /\ "r" \notin DOMAIN frames'[1].variables
             ELSE /\ result' = Running
                  /\ pc' = 3
                  /\ out' = IF m = "any" THEN <<"1">> ELSE <<"1", "2">>
                  /\ \A c \in 1..Len(calls') : calls'[c].arguments = <<"a">>
                  /\ CASE m = "map" -> r.t = "List" /\ lists'[r.v] = truths
                       [] m = "filter" ->
                             r.t = "List" /\ lists'[r.v] = <<Int32(1), Int32(2)>>
                       [] m \in {"all", "any"} -> r = Boolean(TRUE)
      ]_vars

\* l.filter(fn() { ... }) failed: its closure has no parameter, and its body
\* has not run.
C33_Witness ==
    /\ prog.family = "callback"
    /\ prog.variant = "filter"
    /\ prog.params = <<"nullary">>
    /\ result = [tag |-> "Err",
                 val |-> <<"filter: function must accept at least 1 parameter">>]
    /\ out = <<>>
    /\ calls = <<>>

\* C34: all and any visit the elements in list order and stop at the first
\* deciding one.  The callback prints its element and returns it: the lines
\* printed are the elements up to and including the first false (for all)
\* or the first true (for any), in order, and the answer is then false (all)
\* or true (any), whatever comes after it, a 0 that the callback could not
\* answer for included.  With no deciding element, the empty list included,
\* every element is visited and all yields true and any false.
C34_ShortCircuit ==
    [][LET es == prog.params
           m == prog.variant
           deciding == IF m = "all" THEN "false" ELSE "true"
           \* The first element that decides or cannot be answered for.
           Stops == {i \in 1..Len(es) : es[i] \in {deciding, "zero"}}
           stop == IF Stops = {} THEN Len(es)
                   ELSE CHOOSE i \in Stops : \A j \in Stops : i <= j
           line(e) == IF e = "zero" THEN "0" ELSE e
           visited == [i \in 1..stop |-> line(es[i])]
       IN (/\ prog.family = "predicate"
           /\ \A i \in 1..stop : es[i] # "zero"
           /\ pc = 2 /\ result = Running)
          => /\ result' = Running
             /\ out' = visited
             /\ Len(calls') = stop
             /\ frames'[1].variables["r"] = Boolean((m = "any") = (Stops # {}))
      ]_vars

\* list(true, false, 0).all(...) answered false after visiting true and
\* false, and 0 was not visited.
C34_Witness ==
    /\ prog.family = "predicate"
    /\ prog.variant = "all"
    /\ prog.params = <<"true", "false", "zero">>
    /\ pc = 3
    /\ out = <<"true", "false">>
    /\ frames[1].variables["r"] = Boolean(FALSE)

\* C35: sum on a list of integers yields their sum and on a list of strings
\* their concatenation in order; on a list of two or more elements that
\* cannot all be added together (an integer and a string, or a Null, a
\* boolean or a tuple among them) it fails with an error and yields no
\* value.
C35_SumTypeError ==
    [][LET es == prog.params
           Ints == {"one", "two"}
           Strings == {"a", "b"}
           all(S) == es # <<>> /\ \A i \in 1..Len(es) : es[i] \in S
           int(e) == IF e = "one" THEN 1 ELSE 2
           RECURSIVE total(_)
           total(s) == IF s = <<>> THEN 0 ELSE int(Head(s)) + total(Tail(s))
           RECURSIVE joined(_)
           joined(s) == IF s = <<>> THEN "" ELSE Head(s) \o joined(Tail(s))
       IN (prog.family = "sum" /\ pc = 2 /\ result = Running)
          => CASE all(Ints) ->
                    result' = Running /\ frames'[1].variables["r"] = Int32(total(es))
               [] all(Strings) ->
                    result' = Running /\ frames'[1].variables["r"] = String(joined(es))
               [] Len(es) >= 2 /\ ~all(Ints) /\ ~all(Strings) ->
                    result'.tag = "Err" /\ "r" \notin DOMAIN frames'[1].variables
               [] OTHER -> TRUE
      ]_vars

\* C36: member access is a closed lookup directed by the type.  `x.field`
\* resolves on a list exactly for join, length, at, pop, push, map, filter,
\* all, any, sum; on a set exactly for has, union, intersection, difference,
\* add, remove, length; on a dictionary exactly for get, set, remove, items,
\* keys, values, length.  Any other name on these fails with the
\* unknown-member error naming the type, and any name on Null, an integer, a
\* boolean, a string, a tuple, a function or a built-in with `member access
\* not supported`.  The built-in a lookup yields is bound to the collection
\* x held at the lookup: after x is bound to another collection, a push, add
\* or set through it changes the first collection (still held by y) and not
\* the one x now holds.
C36_MemberLookup ==
    [][LET kind == prog.variant
           field == prog.params[1]
           Table == [list |-> {"join", "length", "at", "pop", "push", "map",
                               "filter", "all", "any", "sum"},
                     set |-> {"has", "union", "intersection", "difference",
                              "add", "remove", "length"},
                     dict |-> {"get", "set", "remove", "items", "keys", "values",
                               "length"}]
           root == frames[1].variables
           root2 == frames'[1].variables
           seven == [h |-> "Int32", i |-> 7]
           has7(cell) == CASE kind = "list" -> cell[Len(cell)] = Int32(7)
                           [] kind = "set" -> seven \in cell
                           [] kind = "dict" -> seven \in DOMAIN cell /\ cell[seven] = Int32(7)
       IN (prog.family = "member" /\ result = Running)
          => /\ pc = 2 =>
                  IF kind \in DOMAIN Table
                  THEN IF field \in Table[kind]
                       THEN /\ result' = Running
                            /\ root2["m"].t = "BuiltinFn"
                            /\ root2["m"].name = field
                            /\ root2["m"].f = kind \o "::" \o field
                            /\ root2["m"].this = root["x"]
                       ELSE /\ result' = [tag |-> "Err",
                                          val |-> <<"unknown member on type " \o kind>>]
                            /\ "m" \notin DOMAIN root2
                  ELSE /\ result' = [tag |-> "Err",
                                     val |-> <<"member access not supported">>]
                       /\ "m" \notin DOMAIN root2
             /\ pc = 4 => /\ root2["m"] = root["m"]
                          /\ root2["m"].this = root["y"]
                          /\ root2["x"] # root["x"]
             /\ (pc = 5 /\ field \in {"push", "add", "set"}) =>
                  /\ result' = Running
                  /\ pc' = 6
                  /\ has7(lists'[root["y"].v])
                  /\ lists'[root["x"].v] = lists[root["x"].v]
                  /\ root["x"].v # root["y"].v
      ]_vars

\* x.push was looked up on a list, x bound to another list, and the call
\* m(7) pushed 7 on the first list.
C36_Witness ==
    /\ prog.family = "member"
    /\ prog.variant = "list"
    /\ prog.params = <<"push">>
    /\ pc = 6
    /\ lists[frames[1].variables["y"].v] = <<Int32(1), Int32(7)>>
    /\ lists[frames[1].variables["x"].v] = <<Int32(2)>>
    /\ frames[1].variables["m"].this = frames[1].variables["y"]

\* C37: any holder may change a shared list at any time, a callback running
\* inside map, filter, all or any on that list included.  A push or a pop on
\* the receiver made from the callback, through l or through y, causes no
\* failure of the host: the call of the built-in ends with a value or with
\* an ordinary error, never with a panic.
C37_MutationInCallback ==
    [][(prog.family = "reentrant" /\ pc = 4 /\ result = Running)
       => result'.tag \in {"Running", "Err"}
      ]_vars


\* C38: every arithmetic operation on 32-bit integers either yields an
\* integer of the signed 32-bit range or fails with an ordinary error
\* value: `let r = a op b` over integers a and b, whatever the build, binds
\* r to such an integer or ends the run with an error, and never aborts
\* the evaluation.
C38_ArithmeticNeverAborts ==
    [][(/\ prog.family = "operator"
        /\ prog.variant \in {"Add", "Sub", "Mul", "Div", "Mod", "Pow", "Identity"}
        /\ prog.params[1].t = "Int32" /\ prog.params[2].t = "Int32"
        /\ pc = 1 /\ result = Running)
       => \/ /\ result' = Running
             /\ pc' = 2
             /\ "r" \in DOMAIN frames'[1].variables
             /\ frames'[1].variables["r"].t = "Int32"
             /\ frames'[1].variables["r"].v \in I32Min..I32Max
          \/ /\ result'.tag = "Err"
             /\ pc' = 1
      ]_vars


\* C39: run_program executes every top-level statement exactly once, in
\* source order, and yields Null when none raises an error.  A top-level
\* statement that yields a return-signal (a `return`, or an if, while, for
\* or block whose body executes `return`) prints what it prints before the
\* `return` and nothing after it, and the statement that follows it is the
\* next one executed; after the last statement the run ends with Null.
C39_TopLevelRunsThrough ==
    [][(prog.family = "toplevel" /\ result = Running)
       => IF pc <= Len(prog.statements)
          THEN /\ pc' = pc + 1
               /\ result' = Running
               /\ out' = out \o prog.params[pc]
          ELSE /\ pc' = pc
               /\ result' = [tag |-> "Ok", val |-> Null]
               /\ out' = out
      ]_vars

\* The program with all six kinds of signalling statement ran to its end:
\* every statement printed its lines, in order, and the result is Null.
C39_Witness ==
    /\ prog.family = "toplevel"
    /\ prog.variant = <<"return", "if", "else", "while", "for", "block">>
    /\ result = [tag |-> "Ok", val |-> Null]
    /\ pc = 14
    /\ out = <<"next", "next", "in", "next", "in", "next", "in", "next", "in",
               "next", "in", "end">>


\* C40: a for loop makes no frame of its own and every iteration of a
\* while or for body runs in a fresh child frame.  A variable declared by
\* the init clause is bound in the enclosing frame after the loop (to the
\* value the last update gave it), replacing a binding of that name made
\* before the loop; a variable declared in the body shadows an outer one
\* only until the end of that iteration: the next iteration, the condition,
\* the update and the statement after the loop read the outer binding, and
\* when there is no outer binding the name is undefined after the loop.
\* The only frames made are one child of the root per iteration.
C40_LoopFrames ==
    prog.family = "loopscope" =>
        /\ IsPrefix(out, prog.expect)
        /\ \A f \in 2..Len(frames) : frames[f].parent = 1
        /\ Len(frames) <= 3
        /\ DOMAIN frames[1].variables \cap {"u"} = {}
        /\ Done =>
              /\ out = prog.expect
              /\ Len(frames) = 3
              /\ \A f \in 2..3 :
                    DOMAIN frames[f].variables \subseteq {"t", "u"}
              /\ IF prog.variant \in {"unbound-while", "unbound-for"}
                 THEN /\ result.tag = "Err"
                      /\ pc = Len(prog.statements)
                 ELSE RanToEnd
              /\ prog.variant \in {"replace", "unbound-for"} =>
                    frames[1].variables["i"] = Int32(2)
              /\ prog.variant = "fresh" => frames[1].variables["j"] = Int32(2)
              /\ prog.variant \in {"while", "for"} =>
                    /\ frames[1].variables["t"] = Int32(0)
                    /\ frames[1].variables["i"] = Int32(2)
                    /\ \A f \in 2..3 : frames[f].variables["t"] = Int32(5)

\* `let i = 7; for (let i = 0; i < 2; i = i + 1) { print(i) } print(i)` ran
\* to its end: the root's i is the loop's, and the two iterations left one
\* empty child frame each.
C40_Witness ==
    /\ prog.family = "loopscope"
    /\ prog.variant = "replace"
    /\ RanToEnd
    /\ out = <<"0", "1", "2">>
    /\ frames[1].variables["i"] = Int32(2)
    /\ Len(frames) = 3

====
